---------------------------- MODULE Spec2Model ----------------------------
(***************************************************************************)
(* Capability-gated execution engine of omniagent (package sandbox):       *)
(* the Policy (Config), the path validator and the host function bridge    *)
(* (HostFunctions), the container backend (DockerSandbox) and the bytecode *)
(* backend (Runtime).                                                      *)
(*                                                                         *)
(* Strings are sequences of one-character strings, so that prefix tests,   *)
(* base names and path cleaning are computed as the code computes them.    *)
(* The filesystem, the subprocess, the container daemon and the bytecode   *)
(* engine are the environment: their outcomes are chosen                   *)
(* nondeterministically among those the real services can produce.         *)
(***************************************************************************)
EXTENDS Integers, Sequences, FiniteSets, TLC

VARIABLES
    config,      \* the Policy held by HostFunctions / Runtime (immutable)
    fs,          \* the filesystem: real path -> node
    last,        \* the outcome of the last bridge operation
    made,        \* real paths of the files and directories FSWrite created
    hostSet,     \* DockerSandbox.host # nil (an app-level Policy is attached)
    dconfig,     \* DockerSandbox.config
    call,        \* the container-backend call in progress
    ctx,         \* state of the call's context: live, deadline, cancelled
    box,         \* daemon-side state of the call's container
    api,         \* daemon calls issued by the call in progress, in order
    dret,        \* what the last container-backend call returned
    calls,       \* number of container-backend calls started
    modules,     \* Runtime.modules: name -> compiled module
    wret,        \* what the last bytecode-backend call returned
    rconfig,     \* Runtime.config: the Config the bytecode runtime was built with
    procs,       \* the calls in progress on the Runtime, one per goroutine
    mu,          \* Runtime.mu: the goroutine holding it, or "free"
    live,        \* module instances and one-shot compiled modules still open
    sink,        \* an output sink under test, with the stream written to it
    engine,      \* Runtime.runtime: what NewRuntime built (page ceiling, host modules)
    netmode      \* what the last ParseNetworkMode call was given and returned

vars == <<config, fs, last, made, hostSet, dconfig, call, ctx, box, api, dret,
          calls, modules, wret, rconfig, procs, mu, live, sink,
          engine, netmode>>

bridgeVars == <<config, fs, last, made>>
dockerVars == <<hostSet, dconfig, call, ctx, box, api, dret, calls>>
wasmVars == <<modules, wret, rconfig>>
concVars == <<procs, mu, live>>
sinkVars == <<sink>>
unitVars == <<engine, netmode>>

-----------------------------------------------------------------------------
(* Bounds of the model.                                                    *)

\* symbolic links followed in one resolution before giving up
MaxLinks == 2
\* largest exit status a process, container or module ends with
MaxExit == 2
\* largest number of bytes a process writes to one stream
MaxWritten == 3
\* container-backend calls in one behaviour
MaxCalls == 2
\* largest cap of a sink under test
MaxCap == 2
\* largest number of bytes written to a sink under test
MaxStream == 5

-----------------------------------------------------------------------------
(* Strings and paths (path/filepath, strings).                             *)

Sep == "/"
Root == <<Sep>>

Last(s) == s[Len(s)]
Front(s) == SubSeq(s, 1, Len(s) - 1)

\* strings.HasPrefix
HasPrefix(s, prefix) ==
    /\ Len(prefix) <= Len(s)
    /\ SubSeq(s, 1, Len(prefix)) = prefix

\* strings.Contains
Contains(s, sub) ==
    \E i \in 0..(Len(s) - Len(sub)) : SubSeq(s, i + 1, i + Len(sub)) = sub

\* the path elements of p, separators and empty elements dropped
RECURSIVE SplitFrom(_, _, _)
SplitFrom(p, i, cur) ==
    IF i > Len(p)
    THEN IF cur = <<>> THEN <<>> ELSE <<cur>>
    ELSE IF p[i] = Sep
         THEN IF cur = <<>>
              THEN SplitFrom(p, i + 1, <<>>)
              ELSE <<cur>> \o SplitFrom(p, i + 1, <<>>)
         ELSE SplitFrom(p, i + 1, Append(cur, p[i]))

Split(p) == SplitFrom(p, 1, <<>>)

\* the rooted path with the given elements
RECURSIVE JoinElems(_)
JoinElems(elems) ==
    IF elems = <<>> THEN <<>>
    ELSE <<Sep>> \o Head(elems) \o JoinElems(Tail(elems))

Rooted(elems) == IF elems = <<>> THEN Root ELSE JoinElems(elems)

\* lexical removal of "." and ".." elements (filepath.Clean on a rooted path)
RECURSIVE CleanElems(_, _)
CleanElems(elems, acc) ==
    IF elems = <<>> THEN acc
    ELSE IF Head(elems) = <<".">> THEN CleanElems(Tail(elems), acc)
    ELSE IF Head(elems) = <<".", ".">>
         THEN CleanElems(Tail(elems), IF acc = <<>> THEN acc ELSE Front(acc))
         ELSE CleanElems(Tail(elems), Append(acc, Head(elems)))

\* filepath.Clean for rooted paths
Clean(p) == Rooted(CleanElems(Split(p), <<>>))

\* filepath.Abs: the inputs of the model are rooted, so Abs is Clean
Abs(p) == Clean(p)

\* filepath.Dir of a rooted path
Dir(p) ==
    LET elems == CleanElems(Split(p), <<>>)
    IN  IF elems = <<>> THEN Root ELSE Rooted(Front(elems))

\* filepath.Base: the last element; "/" for a path of separators; "." for ""
Base(p) ==
    IF p = <<>> THEN <<".">>
    ELSE IF Split(p) = <<>> THEN Root
    ELSE Last(Split(p))

\* filepath.Join(dir, name)
Join(dir, name) == Clean(dir \o <<Sep>> \o name)


-----------------------------------------------------------------------------
(* Errors (sandbox.go: ExecutionError and its constructors).  kind is the  *)
(* Kind of the ExecutionError the value is or wraps (what errors.As        *)
(* finds), typed tells whether the returned value itself is an             *)
(* *ExecutionError, cause names the underlying condition.                  *)

Kinds == {"capability", "timeout", "memory", "runtime"}

NilErr == [kind |-> "nil", typed |-> FALSE, cause |-> "none"]

ExecutionError(kind, cause) == [kind |-> kind, typed |-> TRUE, cause |-> cause]

NewCapabilityError(cap) == ExecutionError("capability", cap)

NewTimeoutError == ExecutionError("timeout", "DeadlineExceeded")

\* an error of the operating system or of a library: no ExecutionError
PlainErr(cause) == [kind |-> "untyped", typed |-> FALSE, cause |-> cause]

\* fmt.Errorf("...: %w", err)
Wrap(err) == [kind |-> err.kind, typed |-> FALSE, cause |-> err.cause]

IsErr(err) == err.kind # "nil"

-----------------------------------------------------------------------------
(* The filesystem.  fs maps the real path of every existing object (no     *)
(* symbolic link among its parent elements) to its node.  The root         *)
(* directory always exists.                                                *)

DirNode == [kind |-> "dir", to |-> <<>>, data |-> <<>>]
FileNode(data) == [kind |-> "file", to |-> <<>>, data |-> data]
LinkNode(to) == [kind |-> "link", to |-> to, data |-> <<>>]

Exists(f, p) == p = Root \/ p \in DOMAIN f
Node(f, p) == IF p = Root THEN DirNode ELSE f[p]

\* f with node n at real path p
Put(f, p, n) == [q \in DOMAIN f \cup {p} |-> IF q = p THEN n ELSE f[q]]

\* Path resolution as the kernel does it, from the existing real directory
\* cur along the elements rest, following symbolic links.  err is "nil"
\* (path is the real path of the object), "ENOENT" (path is the real path
\* of the first missing element, rest the elements after it), "ENOTDIR" or
\* "ELOOP".
\* the real path of the element name of the real directory dir
Child(dir, name) == IF dir = Root THEN Root \o name ELSE dir \o Root \o name

RECURSIVE Walk(_, _, _, _)
Walk(f, cur, rest, fuel) ==
    IF rest = <<>> THEN [err |-> "nil", path |-> cur, rest |-> <<>>]
    ELSE
      LET child == Child(cur, Head(rest))
      IN  IF ~Exists(f, child)
          THEN [err |-> "ENOENT", path |-> child, rest |-> Tail(rest)]
          ELSE IF Node(f, child).kind = "link"
          THEN IF fuel = 0
               THEN [err |-> "ELOOP", path |-> child, rest |-> Tail(rest)]
               ELSE Walk(f, Root, Split(Node(f, child).to) \o Tail(rest), fuel - 1)
          ELSE IF Node(f, child).kind = "file" /\ Tail(rest) # <<>>
          THEN [err |-> "ENOTDIR", path |-> child, rest |-> Tail(rest)]
          ELSE Walk(f, child, Tail(rest), fuel)

Resolve(f, p) == Walk(f, Root, Split(p), MaxLinks)

\* The real location path p denotes: where the object is, or where the
\* kernel would create it (missing elements appended to the resolved part).
RealLocation(f, p) ==
    LET w == Resolve(f, p)
    IN  IF w.err = "nil" THEN w.path
        ELSE Rooted(Split(w.path) \o w.rest)

\* filepath.EvalSymlinks: the real path, or the error of the failing lstat
EvalSymlinks(f, p) ==
    LET w == Resolve(f, p)
    IN  [err |-> w.err, path |-> IF w.err = "nil" THEN w.path ELSE <<>>]

\* os.IsNotExist
IsNotExist(err) == err = "ENOENT"

\* os.ReadFile
ReadFile(f, p) ==
    LET w == Resolve(f, p)
    IN  IF w.err # "nil" THEN [err |-> w.err, data |-> <<>>, at |-> <<>>]
        ELSE IF Node(f, w.path).kind # "file"
        THEN [err |-> "EISDIR", data |-> <<>>, at |-> <<>>]
        ELSE [err |-> "nil", data |-> Node(f, w.path).data, at |-> w.path]

\* mkdir(2): the parent must resolve to a directory, the name must be free
Mkdir(f, p) ==
    LET w == Resolve(f, Dir(p))
        child == Child(w.path, Base(p))
    IN  IF w.err # "nil" THEN [err |-> w.err, fs |-> f, made |-> {}]
        ELSE IF Node(f, w.path).kind # "dir"
        THEN [err |-> "ENOTDIR", fs |-> f, made |-> {}]
        ELSE IF Exists(f, child) THEN [err |-> "EEXIST", fs |-> f, made |-> {}]
        ELSE [err |-> "nil", fs |-> Put(f, child, DirNode), made |-> {child}]

\* os.MkdirAll: nothing to do for an existing directory, else the parents
\* first and then the directory itself
RECURSIVE MkdirAll(_, _)
MkdirAll(f, p) ==
    LET st == Resolve(f, p)
    IN  IF st.err = "nil"
        THEN IF Node(f, st.path).kind = "dir"
             THEN [err |-> "nil", fs |-> f, made |-> {}]
             ELSE [err |-> "ENOTDIR", fs |-> f, made |-> {}]
        ELSE
          LET up == MkdirAll(f, Dir(p))
          IN  IF up.err # "nil" THEN up
              ELSE LET me == Mkdir(up.fs, p)
                   IN  [err |-> me.err, fs |-> me.fs, made |-> up.made \cup me.made]

\* os.WriteFile (O_WRONLY|O_CREATE|O_TRUNC): follows symbolic links, also a
\* dangling last element; creates the file when only the last element is
\* missing
WriteFile(f, p, data) ==
    LET w == Resolve(f, p)
    IN  IF w.err = "nil"
        THEN IF Node(f, w.path).kind = "file"
             THEN [err |-> "nil", fs |-> Put(f, w.path, FileNode(data)), made |-> {}]
             ELSE [err |-> "EISDIR", fs |-> f, made |-> {}]
        ELSE IF w.err = "ENOENT" /\ w.rest = <<>>
        THEN [err |-> "nil", fs |-> Put(f, w.path, FileNode(data)), made |-> {w.path}]
        ELSE [err |-> w.err, fs |-> f, made |-> {}]

-----------------------------------------------------------------------------
(* Policy (sandbox.go: Config).                                            *)

CapFSRead == "fs_read"
CapFSWrite == "fs_write"
CapNetHTTP == "net_http"
CapExecRun == "exec_run"
Capabilities == {CapFSRead, CapFSWrite, CapNetHTTP, CapExecRun}

\* Config.HasCapability
HasCapabilityAlways(cfg, cap) == TRUE

HasCapability(cfg, cap) == cap \in cfg.Capabilities

-----------------------------------------------------------------------------
(* Path Validator and allow-list checks of HostFunctions.                  *)

\* an allow-list that always includes the working directory
EffectivePathsBoth(cfg) ==
    IF cfg.WorkingDir # <<>>
    THEN cfg.AllowedPaths \o <<cfg.WorkingDir>>
    ELSE cfg.AllowedPaths

\* the allow-list validatePath checks against
EffectivePaths(cfg) ==
    IF Len(cfg.AllowedPaths) = 0 /\ cfg.WorkingDir # <<>>
    THEN <<cfg.WorkingDir>>
    ELSE cfg.AllowedPaths

\* an allowed entry, made absolute and with its symbolic links resolved
AllowedAbs(f, allowedPath) ==
    LET ev == EvalSymlinks(f, Abs(allowedPath))
    IN  IF ev.err = "nil" THEN ev.path ELSE Abs(allowedPath)

\* the path validatePath checks and returns: the symlink-resolved path, or
\* for a missing file its resolved parent joined with its base name
ResolvedPath(f, path) ==
    LET absPath == Abs(path)
        ev == EvalSymlinks(f, absPath)
        parent == EvalSymlinks(f, Dir(absPath))
    IN  IF ev.err = "nil" THEN ev.path
        ELSE IF IsNotExist(ev.err) /\ parent.err = "nil"
        THEN Join(parent.path, Base(absPath))
        ELSE absPath

\* the prefix test of validatePath for one allowed entry
Within(resolvedPath, allowedAbs) ==
    \/ HasPrefix(resolvedPath, allowedAbs \o <<Sep>>)
    \/ resolvedPath = allowedAbs

\* HostFunctions.validatePath
validatePath(cfg, f, path) ==
    LET resolvedPath == ResolvedPath(f, path)
        allowedPaths == EffectivePaths(cfg)
        allowed == \E i \in DOMAIN allowedPaths :
                      Within(resolvedPath, AllowedAbs(f, allowedPaths[i]))
    IN  IF Len(allowedPaths) > 0 /\ ~allowed
        THEN [err |-> ExecutionError("capability", "path"), path |-> <<>>]
        ELSE [err |-> NilErr, path |-> resolvedPath]

\* HostFunctions.validateHost
validateHost(cfg, url) ==
    IF Len(cfg.AllowedHosts) = 0 THEN NilErr
    ELSE IF \E i \in DOMAIN cfg.AllowedHosts : Contains(url, cfg.AllowedHosts[i])
    THEN NilErr
    ELSE ExecutionError("capability", "host")

\* validateCommand without the empty-list refusal (open by default, as hosts)
validateCommandOpen(cfg, command) ==
    IF Len(cfg.AllowedCommands) = 0 THEN NilErr
    ELSE IF \E i \in DOMAIN cfg.AllowedCommands :
               Base(command) = cfg.AllowedCommands[i] \/ command = cfg.AllowedCommands[i]
    THEN NilErr
    ELSE ExecutionError("capability", "command")

\* validateCommand comparing the full command string only
validateCommandFullOnly(cfg, command) ==
    IF Len(cfg.AllowedCommands) = 0
    THEN ExecutionError("capability", "no commands")
    ELSE IF \E i \in DOMAIN cfg.AllowedCommands : command = cfg.AllowedCommands[i]
    THEN NilErr
    ELSE ExecutionError("capability", "command")

\* HostFunctions.validateCommand
validateCommand(cfg, command) ==
    IF Len(cfg.AllowedCommands) = 0
    THEN ExecutionError("capability", "no commands")
    ELSE IF \E i \in DOMAIN cfg.AllowedCommands :
               Base(command) = cfg.AllowedCommands[i] \/ command = cfg.AllowedCommands[i]
    THEN NilErr
    ELSE ExecutionError("capability", "command")

-----------------------------------------------------------------------------
(* Output sink of ExecRun and of the container backend (limitedWriter).    *)

NewLimitedWriter(max) == [buf |-> <<>>, max |-> max, written |-> 0]

\* limitedWriter.Write passing the write that crosses the cap on whole
limitedWriterWriteWhole(w, p) ==
    IF w.max > 0 /\ w.written >= w.max
    THEN [w |-> w, n |-> Len(p)]
    ELSE [w |-> [w EXCEPT !.buf = @ \o p, !.written = @ + Len(p)], n |-> Len(p)]

\* limitedWriter.Write: the writer after the call and the count it returns
\* (the bytes.Buffer underneath never fails)
limitedWriterWrite(w, p) ==
    IF w.max > 0 /\ w.written >= w.max
    THEN [w |-> w, n |-> Len(p)]
    ELSE
      LET remaining == w.max - w.written
          q == IF w.max > 0 /\ Len(p) > remaining THEN SubSeq(p, 1, remaining) ELSE p
      IN  [w |-> [w EXCEPT !.buf = @ \o q, !.written = @ + Len(q)], n |-> Len(q)]

\* io.Copy into a limitedWriter, chunk by chunk: stops with ErrShortWrite
\* at the first Write that reports fewer bytes than it was given
RECURSIVE CopyChunks(_, _)
CopyChunks(w, chunks) ==
    IF chunks = <<>> THEN [w |-> w, err |-> "nil"]
    ELSE LET r == limitedWriterWrite(w, Head(chunks))
         IN  IF r.n # Len(Head(chunks))
             THEN [w |-> r.w, err |-> "ErrShortWrite"]
             ELSE CopyChunks(r.w, Tail(chunks))

\* the ways to cut the stream <<from+1, ..., from+n>> into non-empty chunks
RECURSIVE ChunkingsOf(_, _)
ChunkingsOf(from, n) ==
    IF n = 0 THEN {<<>>}
    ELSE UNION {{<<[i \in 1..k |-> from + i]>> \o rest :
                    rest \in ChunkingsOf(from + k, n - k)} : k \in 1..n}

\* the streams a process can write: every chunking of every length
Streams == UNION {ChunkingsOf(0, n) : n \in 0..MaxWritten}

\* all bytes of a chunked stream, in order
RECURSIVE Flatten(_)
Flatten(chunks) ==
    IF chunks = <<>> THEN <<>> ELSE Head(chunks) \o Flatten(Tail(chunks))

-----------------------------------------------------------------------------
(* Host Function Bridge (HostFunctions): each operation as a function of   *)
(* the Policy, the filesystem, its arguments and the environment's answer. *)

\* FSRead returning the whole file whatever max_output_bytes is
FSReadWhole(cfg, f, path) ==
    IF ~HasCapability(cfg, CapFSRead)
    THEN [err |-> NewCapabilityError(CapFSRead), failedAt |-> "capability",
          data |-> <<>>, read |-> {}]
    ELSE
      LET v == validatePath(cfg, f, path)
          r == ReadFile(f, v.path)
      IN  IF IsErr(v.err)
          THEN [err |-> v.err, failedAt |-> "validatePath", data |-> <<>>, read |-> {}]
          ELSE IF r.err # "nil"
          THEN [err |-> Wrap(PlainErr(r.err)), failedAt |-> "ReadFile",
                data |-> <<>>, read |-> {}]
          ELSE [err |-> NilErr, failedAt |-> "none", data |-> r.data,
                read |-> {r.at}]

\* HostFunctions.FSRead
FSRead(cfg, f, path) ==
    IF ~HasCapability(cfg, CapFSRead)
    THEN [err |-> NewCapabilityError(CapFSRead), failedAt |-> "capability",
          data |-> <<>>, read |-> {}]
    ELSE
      LET v == validatePath(cfg, f, path)
          r == ReadFile(f, v.path)
      IN  IF IsErr(v.err)
          THEN [err |-> v.err, failedAt |-> "validatePath", data |-> <<>>, read |-> {}]
          ELSE IF r.err # "nil"
          THEN [err |-> Wrap(PlainErr(r.err)), failedAt |-> "ReadFile",
                data |-> <<>>, read |-> {}]
          ELSE [err |-> NilErr, failedAt |-> "none",
                data |-> IF cfg.MaxOutputBytes > 0 /\ Len(r.data) > cfg.MaxOutputBytes
                         THEN SubSeq(r.data, 1, cfg.MaxOutputBytes)
                         ELSE r.data,
                read |-> {r.at}]

\* FSWrite creating the parent directories before it validates the path
FSWriteMkdirFirst(cfg, f, path, data) ==
    IF ~HasCapability(cfg, CapFSWrite)
    THEN [err |-> NewCapabilityError(CapFSWrite), failedAt |-> "capability",
          fs |-> f, made |-> {}]
    ELSE
      LET mk == MkdirAll(f, Dir(Abs(path)))
          v == validatePath(cfg, mk.fs, path)
          wf == WriteFile(mk.fs, v.path, data)
      IN  IF IsErr(v.err)
          THEN [err |-> v.err, failedAt |-> "validatePath", fs |-> mk.fs, made |-> mk.made]
          ELSE IF mk.err # "nil"
          THEN [err |-> Wrap(PlainErr(mk.err)), failedAt |-> "MkdirAll",
                fs |-> mk.fs, made |-> mk.made]
          ELSE [err |-> IF wf.err = "nil" THEN NilErr ELSE PlainErr(wf.err),
                failedAt |-> IF wf.err = "nil" THEN "none" ELSE "WriteFile",
                fs |-> wf.fs, made |-> mk.made \cup wf.made]

\* HostFunctions.FSWrite
FSWrite(cfg, f, path, data) ==
    IF ~HasCapability(cfg, CapFSWrite)
    THEN [err |-> NewCapabilityError(CapFSWrite), failedAt |-> "capability",
          fs |-> f, made |-> {}]
    ELSE
      LET v == validatePath(cfg, f, path)
          mk == MkdirAll(f, Dir(v.path))
          wf == WriteFile(mk.fs, v.path, data)
      IN  IF IsErr(v.err)
          THEN [err |-> v.err, failedAt |-> "validatePath", fs |-> f, made |-> {}]
          ELSE IF mk.err # "nil"
          THEN [err |-> Wrap(PlainErr(mk.err)), failedAt |-> "MkdirAll",
                fs |-> mk.fs, made |-> mk.made]
          ELSE [err |-> IF wf.err = "nil" THEN NilErr ELSE PlainErr(wf.err),
                failedAt |-> IF wf.err = "nil" THEN "none" ELSE "WriteFile",
                fs |-> wf.fs, made |-> mk.made \cup wf.made]

\* The answers of the network to one HTTPFetch: the request cannot be built
\* (bad method or URL), the round trip fails, or a response with a body.
HTTPAnswers ==
    [how : {"badRequest", "doFails"}, body : {<<>>}]
    \cup [how : {"response"}, body : {[i \in 1..n |-> i] : n \in 0..MaxWritten}]

\* io.ReadAll(io.LimitReader(body, n))
LimitRead(body, n) == IF Len(body) > n THEN SubSeq(body, 1, n) ELSE body

\* HostFunctions.HTTPFetch
HTTPFetch(cfg, url, answer) ==
    IF ~HasCapability(cfg, CapNetHTTP)
    THEN [err |-> NewCapabilityError(CapNetHTTP), failedAt |-> "capability",
          data |-> <<>>, requested |-> FALSE]
    ELSE IF IsErr(validateHost(cfg, url))
    THEN [err |-> validateHost(cfg, url), failedAt |-> "validateHost",
          data |-> <<>>, requested |-> FALSE]
    ELSE IF answer.how = "badRequest"
    THEN [err |-> Wrap(PlainErr("request")), failedAt |-> "NewRequest",
          data |-> <<>>, requested |-> FALSE]
    ELSE IF answer.how = "doFails"
    THEN [err |-> Wrap(PlainErr("network")), failedAt |-> "Do",
          data |-> <<>>, requested |-> TRUE]
    ELSE [err |-> NilErr, failedAt |-> "none",
          data |-> LimitRead(answer.body, cfg.MaxOutputBytes), requested |-> TRUE]

\* What can happen to the subprocess of one ExecRun.  how:
\*   startErr        the process cannot be started (no such program)
\*   ctxBeforeStart  the context is done before the process is started
\*   exit            the process ends by itself with status code
\*   killed          the context ends while the process runs: it is killed
\*   exitAtDone      the process ends with status 0 just when the context
\*                   ends (the kill still finds it)
\* ctxErr is ctx.Err() when cmd.Run returns; out and errOut are the chunks
\* the process wrote to stdout and stderr until it ended.
ProcOutcomes ==
    [how : {"startErr"}, code : {0}, ctxErr : {"nil"}, out : {<<>>}, errOut : {<<>>}]
    \cup [how : {"ctxBeforeStart"}, code : {0},
          ctxErr : {"DeadlineExceeded", "Canceled"}, out : {<<>>}, errOut : {<<>>}]
    \cup [how : {"exit"}, code : 0..MaxExit, ctxErr : {"nil"},
          out : Streams, errOut : {<<>>} \cup ChunkingsOf(0, MaxWritten)]
    \cup [how : {"killed", "exitAtDone"}, code : {0},
          ctxErr : {"DeadlineExceeded", "Canceled"},
          out : {<<>>} \cup ChunkingsOf(0, MaxWritten), errOut : {<<>>}]

\* exec.Cmd.Run with both streams copied into limitedWriters: the error it
\* returns (err, with code the ExitCode() of an ExitError) and the output
RunCmd(outcome, max) ==
    LET so == CopyChunks(NewLimitedWriter(max), outcome.out)
        se == CopyChunks(NewLimitedWriter(max), outcome.errOut)
        copyErr == IF so.err # "nil" THEN so.err ELSE se.err
    IN  CASE outcome.how = "startErr" ->
               [err |-> "startErr", code |-> 0, stdout |-> <<>>, stderr |-> <<>>,
                spawned |-> FALSE]
          [] outcome.how = "ctxBeforeStart" ->
               [err |-> "ctxErr", code |-> 0, stdout |-> <<>>, stderr |-> <<>>,
                spawned |-> FALSE]
          [] outcome.how = "exit" ->
               [err |-> IF outcome.code # 0 THEN "ExitError" ELSE copyErr,
                code |-> outcome.code, stdout |-> so.w.buf, stderr |-> se.w.buf,
                spawned |-> TRUE]
          [] outcome.how = "killed" ->
               [err |-> "ExitError", code |-> -1, stdout |-> so.w.buf,
                stderr |-> se.w.buf, spawned |-> TRUE]
          [] outcome.how = "exitAtDone" ->
               [err |-> "ctxErr", code |-> 0, stdout |-> so.w.buf,
                stderr |-> se.w.buf, spawned |-> TRUE]

\* HostFunctions.ExecRun
ExecRun(cfg, command, outcome) ==
    LET r == RunCmd(outcome, cfg.MaxOutputBytes)
    IN  IF ~HasCapability(cfg, CapExecRun)
        THEN [err |-> NewCapabilityError(CapExecRun), failedAt |-> "capability",
              stdout |-> <<>>, stderr |-> <<>>, code |-> 0, spawned |-> FALSE]
        ELSE IF IsErr(validateCommand(cfg, command))
        THEN [err |-> validateCommand(cfg, command), failedAt |-> "validateCommand",
              stdout |-> <<>>, stderr |-> <<>>, code |-> 0, spawned |-> FALSE]
        ELSE IF r.err = "nil"
        THEN [err |-> NilErr, failedAt |-> "none", stdout |-> r.stdout,
              stderr |-> r.stderr, code |-> 0, spawned |-> r.spawned]
        ELSE IF r.err = "ExitError"
        THEN [err |-> NilErr, failedAt |-> "none", stdout |-> r.stdout,
              stderr |-> r.stderr, code |-> r.code, spawned |-> r.spawned]
        ELSE IF outcome.ctxErr = "DeadlineExceeded"
        THEN [err |-> NewTimeoutError, failedAt |-> "Run", stdout |-> r.stdout,
              stderr |-> r.stderr, code |-> -1, spawned |-> r.spawned]
        ELSE [err |-> Wrap(PlainErr(r.err)), failedAt |-> "Run", stdout |-> r.stdout,
              stderr |-> r.stderr, code |-> -1, spawned |-> r.spawned]

-----------------------------------------------------------------------------
(* Inputs of the bridge: Policies, a filesystem, paths, URLs, commands.    *)

pA == <<"/", "a">>
pA2 == <<"/", "a", "2">>
pO == <<"/", "o">>
pAF == <<"/", "a", "/", "f">>
pAN == <<"/", "a", "/", "n">>
pADN == <<"/", "a", "/", "d", "/", "n">>
pAL == <<"/", "a", "/", "l">>
pALS == <<"/", "a", "/", "l", "/", "s">>
pALN == <<"/", "a", "/", "l", "/", "n">>
pALDN == <<"/", "a", "/", "l", "/", "d", "/", "n">>
pAK == <<"/", "a", "/", "k">>
pA2F == <<"/", "a", "2", "/", "f">>
pOS == <<"/", "o", "/", "s">>
pON == <<"/", "o", "/", "n">>
pOX == <<"/", "o", "/", "x">>
pODN == <<"/", "o", "/", "d", "/", "n">>
pDotDot == <<"/", "a", "/", ".", ".", "/", "o", "/", "s">>

\* /a, /a2 and /o are directories; /a/f, /a2/f and /o/s are files;
\* /a/l is a symbolic link to the directory /o and /a/k a dangling symbolic
\* link to /o/x
InitFS ==
    [p \in {pA, pA2, pO, pAF, pA2F, pOS, pAL, pAK} |->
        CASE p \in {pA, pA2, pO} -> DirNode
          [] p \in {pAF, pA2F, pOS} -> FileNode(<<1, 2, 3>>)
          [] p = pAL -> LinkNode(pO)
          [] p = pAK -> LinkNode(pOX)]

TestPaths ==
    {pAF, pAN, pADN, pALS, pALN, pALDN, pAK, pA2F, pOS, pON, pODN, pDotDot}

WriteData == {<<7>>}

hostH == <<"h">>
urlH == <<"s", ":", "/", "/", "h", "/", "p">>
urlG == <<"s", ":", "/", "/", "g", "/", "p">>
urlGH == <<"s", ":", "/", "/", "g", "/", "h">>
TestURLs == {urlH, urlG, urlGH}

cmdLs == <<"l", "s">>
cmdBinLs == <<"/", "b", "/", "l", "s">>
cmdSh == <<"s", "h">>
cmdRm == <<"r", "m">>
TestCommands == {cmdLs, cmdBinLs, cmdSh, cmdRm}

\* the allow-lists and limits of the Policies explored: the zero Config, an
\* allow-list for everything, a working directory only, and an allow-list
\* beside a working directory
Profiles ==
    { [AllowedPaths |-> <<>>, WorkingDir |-> <<>>, AllowedHosts |-> <<>>,
       AllowedCommands |-> <<>>, MaxOutputBytes |-> 0],
      [AllowedPaths |-> <<pA>>, WorkingDir |-> <<>>, AllowedHosts |-> <<hostH>>,
       AllowedCommands |-> <<cmdLs>>, MaxOutputBytes |-> 2],
      [AllowedPaths |-> <<>>, WorkingDir |-> pA, AllowedHosts |-> <<>>,
       AllowedCommands |-> <<cmdSh, cmdLs>>, MaxOutputBytes |-> 2],
      [AllowedPaths |-> <<pA>>, WorkingDir |-> pO, AllowedHosts |-> <<hostH>>,
       AllowedCommands |-> <<>>, MaxOutputBytes |-> 0] }

Policies ==
    { [Capabilities |-> caps, AllowedPaths |-> pr.AllowedPaths,
       WorkingDir |-> pr.WorkingDir, AllowedHosts |-> pr.AllowedHosts,
       AllowedCommands |-> pr.AllowedCommands,
       MaxOutputBytes |-> pr.MaxOutputBytes] :
         caps \in SUBSET Capabilities, pr \in Profiles }

-----------------------------------------------------------------------------
(* State of the bridge and its actions.                                    *)

\* the record kept of one bridge operation: its arguments, what it
\* returned, where it failed, what it did to the outside world, what the
\* environment did (how, pcode, ctxErr, wrote) and, for a file operation,
\* the real location its path denoted when it was called (real)
NoLast ==
    [op |-> "none", arg |-> <<>>, err |-> NilErr, failedAt |-> "none",
     data |-> <<>>, read |-> {}, created |-> {}, changed |-> FALSE,
     spawned |-> FALSE, requested |-> FALSE, code |-> 0,
     stdout |-> <<>>, stderr |-> <<>>,
     how |-> "none", pcode |-> 0, ctxErr |-> "nil", wrote |-> <<>>,
     real |-> <<>>]

\* the state the other components rest in
IdleCall ==
    [op |-> "none", command |-> <<>>, args |-> <<>>, stdin |-> <<>>, pc |-> "idle",
     wait |-> "none", exitCode |-> 0, created |-> FALSE,
     out |-> <<>>, errb |-> <<>>, deadlineWhileRunning |-> FALSE]

\* network is the HostConfig.NetworkMode and cmd the Config.Cmd the
\* container was created with
NoBox == [state |-> "none", code |-> 0, how |-> "none", frames |-> <<>>,
          network |-> <<>>, cmd |-> <<>>]

NoReturn ==
    [op |-> "none", err |-> NilErr, hasResult |-> FALSE, ExitCode |-> 0,
     Output |-> <<>>, Error |-> <<>>, rejected |-> FALSE]

DockerIdle ==
    /\ hostSet = FALSE
    /\ dconfig = [Mounts |-> <<>>, Timeout |-> 0, MaxOutputBytes |-> 0,
                  NetworkMode |-> <<>>]
    /\ call = IdleCall
    /\ ctx = "live"
    /\ box = NoBox
    /\ api = <<>>
    /\ dret = NoReturn
    /\ calls = 0

NoWasmReturn ==
    [op |-> "none", name |-> "none", err |-> NilErr, hasResult |-> FALSE,
     ExitCode |-> 0, Output |-> <<>>, Error |-> <<>>,
     ran |-> FALSE, ends |-> "none", status |-> 0,
     ctxErr |-> "nil", instErr |-> "nil"]

WasmIdle ==
    /\ modules = <<>>
    /\ wret = NoWasmReturn
    /\ rconfig = [Timeout |-> 0, MaxOutputBytes |-> 0]

\* the goroutines calling into one Runtime
Threads == {"t1", "t2"}

IdleProc ==
    [op |-> "none", pc |-> 0, name |-> "none", wasm |-> <<>>, stdin |-> <<>>,
     compiled |-> <<>>, found |-> FALSE, ran |-> FALSE,
     err |-> NilErr, hasResult |-> FALSE, Output |-> <<>>]

\* no call in progress on the Runtime, nothing open
ConcIdle ==
    /\ procs = [t \in Threads |-> IdleProc]
    /\ mu = "free"
    /\ live = {}

\* no sink under test
SinkIdle ==
    sink = [max |-> 0, stream |-> <<>>, w |-> NewLimitedWriter(0),
            b |-> [buf |-> <<>>, max |-> 0], wBefore |-> <<>>, bBefore |-> <<>>,
            writes |-> 0]

\* before NewRuntime: no wazero runtime
NoEngine ==
    [built |-> FALSE, MemoryLimitMB |-> 0, err |-> NilErr, pages |-> 0,
     hostModules |-> {}, regErr |-> NilErr]

\* before any ParseNetworkMode call
NoParse == [called |-> FALSE, input |-> <<>>, mode |-> <<>>, err |-> NilErr,
            again |-> <<>>, againErr |-> NilErr]

UnitsIdle ==
    /\ engine = NoEngine
    /\ netmode = NoParse

\* FSRead called with one of the given paths
FSReadOf(paths) ==
    /\ \E path \in paths :
          \E r \in {FSRead(config, fs, path)} :
              last' = [NoLast EXCEPT !.op = "FSRead", !.arg = path, !.err = r.err,
                          !.failedAt = r.failedAt, !.data = r.data, !.read = r.read,
                          !.real = RealLocation(fs, Abs(path))]
    /\ UNCHANGED <<config, fs, made, dockerVars, wasmVars, concVars, sinkVars, unitVars>>

\* FSWrite called with one of the given paths
FSWriteOf(paths) ==
    /\ \E path \in paths, data \in WriteData :
          \E r \in {FSWrite(config, fs, path, data)} :
              /\ fs' = r.fs
              /\ made' = made \cup r.made
              /\ last' = [NoLast EXCEPT !.op = "FSWrite", !.arg = path, !.err = r.err,
                             !.failedAt = r.failedAt, !.data = data,
                             !.created = r.made, !.changed = (r.fs # fs),
                             !.real = RealLocation(fs, Abs(path))]
    /\ UNCHANGED <<config, dockerVars, wasmVars, concVars, sinkVars, unitVars>>

\* HTTPFetch called with one of the given URLs
HTTPFetchOf(urls) ==
    /\ \E url \in urls, answer \in HTTPAnswers :
          \E r \in {HTTPFetch(config, url, answer)} :
              last' = [NoLast EXCEPT !.op = "HTTPFetch", !.arg = url, !.err = r.err,
                          !.failedAt = r.failedAt, !.data = r.data,
                          !.requested = r.requested,
                          !.how = IF r.requested THEN answer.how ELSE "none",
                          !.wrote = IF r.requested THEN answer.body ELSE <<>>]
    /\ UNCHANGED <<config, fs, made, dockerVars, wasmVars, concVars, sinkVars, unitVars>>

\* ExecRun called with one of the given commands, the subprocess behaving
\* in one of the given ways
ExecRunOf(commands, outcomes) ==
    /\ \E command \in commands, outcome \in outcomes :
          \E r \in {ExecRun(config, command, outcome)} :
            LET ran == r.spawned \/ r.failedAt = "Run"
            IN  last' = [NoLast EXCEPT !.op = "ExecRun", !.arg = command, !.err = r.err,
                          !.failedAt = r.failedAt, !.spawned = r.spawned,
                          !.code = r.code, !.stdout = r.stdout, !.stderr = r.stderr,
                          !.how = IF ran THEN outcome.how ELSE "none",
                          !.pcode = IF ran THEN outcome.code ELSE 0,
                          !.ctxErr = IF ran THEN outcome.ctxErr ELSE "nil",
                          !.wrote = IF ran THEN Flatten(outcome.out) ELSE <<>>]
    /\ UNCHANGED <<config, fs, made, dockerVars, wasmVars, concVars, sinkVars, unitVars>>

-----------------------------------------------------------------------------
(* The four bridge operations under every capability set.                  *)

InitBridge ==
    /\ config \in Policies
    /\ fs = InitFS
    /\ last = NoLast
    /\ made = {}
    /\ DockerIdle
    /\ WasmIdle
    /\ ConcIdle
    /\ SinkIdle
    /\ UnitsIdle

BridgeFSRead == FSReadOf({pAF, pOS, pAN})
BridgeFSWrite == FSWriteOf({pAF, pADN, pON})
BridgeHTTPFetch == HTTPFetchOf(TestURLs)
BridgeExecRun ==
    ExecRunOf({cmdLs, cmdRm},
              {o \in ProcOutcomes : o.errOut = <<>> /\ Len(o.out) <= 1})

NextBridge ==
    \/ BridgeFSRead
    \/ BridgeFSWrite
    \/ BridgeHTTPFetch
    \/ BridgeExecRun

SpecBridge == InitBridge /\ [][NextBridge]_vars

-----------------------------------------------------------------------------
(* The file operations over a filesystem with symbolic links.              *)

InitFiles ==
    /\ config \in {p \in Policies : /\ p.Capabilities \subseteq {CapFSRead, CapFSWrite}
                                    /\ p.Capabilities # {}}
    /\ fs = InitFS
    /\ last = NoLast
    /\ made = {}
    /\ DockerIdle
    /\ WasmIdle
    /\ ConcIdle
    /\ SinkIdle
    /\ UnitsIdle

DoFSRead == FSReadOf(TestPaths)
DoFSWrite == FSWriteOf(TestPaths)

NextFiles ==
    \/ DoFSRead
    \/ DoFSWrite

SpecFiles == InitFiles /\ [][NextFiles]_vars

-----------------------------------------------------------------------------
(* ExecRun with every behaviour of the subprocess.                         *)

InitExec ==
    /\ config \in {p \in Policies : p.Capabilities \in {{}, {CapExecRun}}}
    /\ fs = InitFS
    /\ last = NoLast
    /\ made = {}
    /\ DockerIdle
    /\ WasmIdle
    /\ ConcIdle
    /\ SinkIdle
    /\ UnitsIdle

DoExecRun == ExecRunOf(TestCommands, ProcOutcomes)

NextExec == DoExecRun

SpecExec == InitExec /\ [][NextExec]_vars

-----------------------------------------------------------------------------
(* Properties of the bridge.                                               *)

\* the capability each bridge operation is gated by
RequiredCap(op) ==
    CASE op = "FSRead" -> CapFSRead
      [] op = "FSWrite" -> CapFSWrite
      [] op = "HTTPFetch" -> CapNetHTTP
      [] op = "ExecRun" -> CapExecRun

\* path p is directory d or lies below it, element by element
Inside(p, d) ==
    /\ Len(Split(d)) <= Len(Split(p))
    /\ SubSeq(Split(p), 1, Len(Split(d))) = Split(d)

\* real location p lies outside every entry of allowed_paths
OutsideAllowed(p) ==
    \A i \in DOMAIN config.AllowedPaths :
        ~Inside(p, RealLocation(fs, Abs(config.AllowedPaths[i])))

\* C1: a bridge operation whose capability is not granted returns an
\* ExecutionError of kind capability and has read no file, created no file
\* or directory, spawned no subprocess and issued no HTTP request, whatever
\* the rest of the Policy and the arguments are.
C1_MissingCapabilityDenies ==
    (last.op # "none" /\ RequiredCap(last.op) \notin config.Capabilities) =>
        /\ last.err = NewCapabilityError(RequiredCap(last.op))
        /\ last.read = {}
        /\ last.created = {}
        /\ ~last.changed
        /\ ~last.spawned
        /\ ~last.requested

C1_Witness ==
    /\ last.op = "FSWrite"
    /\ config.Capabilities = Capabilities \ {CapFSWrite}
    /\ config.AllowedPaths = <<>>
    /\ config.WorkingDir = <<>>
    /\ last.err.kind = "capability"

\* C2: with a non-empty allowed_paths, a file operation that holds its
\* capability is rejected by validatePath (kind capability) whenever the
\* real location of its path, symbolic links resolved, is outside every
\* allowed entry -- also for a file that does not exist yet, under any
\* number of missing parent directories, and through a symbolic link.
C2_OutsideIsRejected ==
    ( /\ last.op \in {"FSRead", "FSWrite"}
      /\ last.failedAt # "capability"
      /\ Len(config.AllowedPaths) > 0
      /\ OutsideAllowed(last.real) ) =>
        /\ last.failedAt = "validatePath"
        /\ last.err.kind = "capability"

\* C3: when validatePath fails, FSWrite has created neither a directory nor
\* the file and has changed nothing, and FSRead has read nothing.
C3_ValidationBeforeAccess ==
    (last.op \in {"FSRead", "FSWrite"} /\ last.failedAt = "validatePath") =>
        /\ IsErr(last.err)
        /\ last.created = {}
        /\ ~last.changed
        /\ last.read = {}

C3_Witness ==
    /\ last.op = "FSWrite"
    /\ last.arg = pODN
    /\ CapFSWrite \in config.Capabilities
    /\ last.failedAt = "validatePath"
    /\ ~Exists(fs, <<"/", "o", "/", "d">>)

\* C4: with an empty allowed_commands every ExecRun fails with kind
\* capability and starts no subprocess, also when exec_run is granted.
C4_EmptyCommandsDeny ==
    (last.op = "ExecRun" /\ Len(config.AllowedCommands) = 0) =>
        /\ last.err.typed
        /\ last.err.kind = "capability"
        /\ ~last.spawned

C4_Witness ==
    /\ last.op = "ExecRun"
    /\ last.arg = cmdLs
    /\ CapExecRun \in config.Capabilities
    /\ Len(config.AllowedCommands) = 0
    /\ last.failedAt = "validateCommand"
    /\ last.err.kind = "capability"

\* C8: when the deadline of the context is exceeded while the subprocess of
\* ExecRun runs and the subprocess is killed for it, ExecRun returns an
\* ExecutionError of kind timeout together with the output captured so
\* far, never a normal result with a nil error.
C8_KilledByDeadlineIsTimeout ==
    ( /\ last.op = "ExecRun"
      /\ last.how = "killed"
      /\ last.ctxErr = "DeadlineExceeded" ) =>
        /\ last.err = NewTimeoutError
        /\ last.stdout = LimitRead(last.wrote,
                                   IF config.MaxOutputBytes > 0
                                   THEN config.MaxOutputBytes ELSE Len(last.wrote))

-----------------------------------------------------------------------------
(* Container Execution Backend (DockerSandbox).                            *)
(*                                                                         *)
(* One call is in progress at a time; call.pc is the statement it has      *)
(* reached.  The daemon is part of the environment: a request either       *)
(* takes effect and succeeds, or fails without effect.  box is the         *)
(* container of the call in progress as the daemon holds it: none,         *)
(* created, running, exited, removed.  The container ends by itself, the   *)
(* daemon removes an exited container by itself (AutoRemove), the deadline *)
(* of the call elapses and the caller cancels at any moment.               *)

\* the cap used when DockerConfig.MaxOutputBytes is 0
DefaultMaxBytes == 1048576

MaxBytes(dc) ==
    IF dc.MaxOutputBytes = 0 THEN DefaultMaxBytes ELSE dc.MaxOutputBytes

\* stdcopy.StdCopy into two limitedWriters: frame by frame, stopping with
\* ErrShortWrite at the first frame a writer does not take whole
RECURSIVE StdCopy(_, _, _)
StdCopy(wo, we, frames) ==
    IF frames = <<>> THEN [out |-> wo.buf, err |-> we.buf]
    ELSE
      LET fr == Head(frames)
          r == limitedWriterWrite(IF fr.stream = "stdout" THEN wo ELSE we, fr.data)
          wo2 == IF fr.stream = "stdout" THEN r.w ELSE wo
          we2 == IF fr.stream = "stdout" THEN we ELSE r.w
      IN  IF r.n # Len(fr.data)
          THEN [out |-> wo2.buf, err |-> we2.buf]
          ELSE StdCopy(wo2, we2, Tail(frames))

\* the first mount whose host path the Path Validator rejects, 0 if none
FirstBadMount(cfg, f, mounts) ==
    LET bad == {i \in DOMAIN mounts : IsErr(validatePath(cfg, f, mounts[i]).err)}
    IN  IF bad = {} THEN 0 ELSE CHOOSE i \in bad : \A j \in bad : i <= j

\* the app-level checks with the mounts left unchecked
PreflightCommandOnly(host, cfg, f, command, mounts) ==
    IF host /\ IsErr(validateCommand(cfg, command))
    THEN validateCommand(cfg, command)
    ELSE NilErr

\* the app-level checks of Run and RunWithStdin: the error they return
\* before any daemon call, nil when host is not set or all checks pass
Preflight(host, cfg, f, command, mounts) ==
    IF host /\ IsErr(validateCommand(cfg, command))
    THEN validateCommand(cfg, command)
    ELSE IF host /\ FirstBadMount(cfg, f, mounts) # 0
    THEN Wrap(validatePath(cfg, f, mounts[FirstBadMount(cfg, f, mounts)]).err)
    ELSE NilErr

\* daemon requests, with the context they are issued under (the context of
\* the call, or a fresh 5 s deadline on context.Background()) and whether
\* the daemon carried them out
Req(name, ok) == [name |-> name, ctx |-> "call", force |-> FALSE, ok |-> ok]

ConnReq(name, ok) == [name |-> name, ctx |-> "conn", force |-> FALSE, ok |-> ok]

\* the stop issued under the context of the call
StopReqCallerCtx(ok) ==
    [name |-> "ContainerStop", ctx |-> "call", force |-> FALSE, ok |-> ok]

\* the best-effort stop after the deadline
StopReq(ok) ==
    [name |-> "ContainerStop", ctx |-> "fresh5s", force |-> FALSE, ok |-> ok]

\* the deferred removal issued under the context of the call
CleanupCallsCallerCtx(created, ok) ==
    IF created
    THEN <<[name |-> "ContainerRemove", ctx |-> "call", force |-> TRUE, ok |-> ok]>>
    ELSE <<>>

\* the deferred function registered once ContainerCreate has succeeded
CleanupCalls(created, ok) ==
    IF created
    THEN <<[name |-> "ContainerRemove", ctx |-> "fresh5s", force |-> TRUE, ok |-> ok]>>
    ELSE <<>>

\* the reply to a forced removal: the daemon refuses when it chooses to
\* fail (~up) or when the container is already gone
RemoveOk(b, up) == up /\ b.state \in {"created", "running", "exited"}

\* the container after a forced removal that succeeds (ok) or fails
AfterRemove(b, ok) ==
    IF ok /\ b.state \in {"created", "running", "exited"}
    THEN [b EXCEPT !.state = "removed",
                   !.how = IF b.state = "running" THEN "killed" ELSE b.how]
    ELSE b

\* the container after a stop that succeeds (ok) or fails
AfterStop(b, ok) ==
    IF ok /\ b.state = "running"
    THEN [b EXCEPT !.state = "exited", !.how = "stopped", !.code = 137]
    ELSE b

NoResult == [has |-> FALSE, code |-> 0, out |-> <<>>, err |-> <<>>]

\* a return that reports a failed removal in place of what the call produced
ReturnCleanupMasks(reqs, b, err, res, removeOk) ==
    /\ api' = reqs \o CleanupCalls(call.created, RemoveOk(b, removeOk))
    /\ box' = IF call.created THEN AfterRemove(b, removeOk) ELSE b
    /\ dret' = IF call.created /\ ~RemoveOk(b, removeOk)
               THEN [op |-> call.op, err |-> Wrap(PlainErr("remove")),
                     hasResult |-> FALSE, ExitCode |-> 0, Output |-> <<>>,
                     Error |-> <<>>, rejected |-> FALSE]
               ELSE [op |-> call.op, err |-> err, hasResult |-> res.has,
                     ExitCode |-> res.code, Output |-> res.out, Error |-> res.err,
                     rejected |-> FALSE]
    /\ call' = [call EXCEPT !.pc = "idle"]
    /\ UNCHANGED <<ctx, calls, hostSet, dconfig>>

\* the call returns err and res after the daemon requests reqs, with the
\* container in state b: the deferred removal runs, then the caller has
\* the return value
Return(reqs, b, err, res, removeOk) ==
    /\ api' = reqs \o CleanupCalls(call.created, RemoveOk(b, removeOk))
    /\ box' = IF call.created THEN AfterRemove(b, removeOk) ELSE b
    /\ dret' = [op |-> call.op, err |-> err, hasResult |-> res.has,
                ExitCode |-> res.code, Output |-> res.out, Error |-> res.err,
                rejected |-> FALSE]
    /\ call' = [call EXCEPT !.pc = "idle"]
    /\ UNCHANGED <<ctx, calls, hostSet, dconfig>>

\* the error of a daemon request issued under a context that is done
CtxErr == Wrap(PlainErr(IF ctx = "deadline" THEN "DeadlineExceeded" ELSE "Canceled"))

\* Run / RunShell / RunWithStdin is called: the app-level checks, and the
\* timeout context
Enter(op, command, args, stdin) ==
    /\ call.pc = "idle"
    /\ calls < MaxCalls
    /\ calls' = calls + 1
    /\ ctx' = "live"
    /\ box' = NoBox
    /\ api' = <<>>
    /\ \E e \in {Preflight(hostSet, config, fs, command, dconfig.Mounts)} :
          IF IsErr(e)
          THEN /\ call' = [IdleCall EXCEPT !.op = op, !.command = command,
                                           !.args = args, !.stdin = stdin]
               /\ dret' = [NoReturn EXCEPT !.op = op, !.err = e, !.rejected = TRUE]
          ELSE /\ call' = [IdleCall EXCEPT !.op = op, !.command = command,
                                           !.args = args, !.stdin = stdin,
                                           !.pc = "create"]
               /\ dret' = NoReturn
    /\ UNCHANGED <<hostSet, dconfig, bridgeVars, wasmVars, concVars, sinkVars, unitVars>>

Run == \E command \in {cmdLs, cmdSh} : Enter("Run", command, <<>>, <<>>)

\* the shell texts passed to RunShell: one invoking ls, one invoking rm
ShellTexts == {cmdLs, cmdRm}

dashC == <<"-", "c">>

\* RunShell validating the command its shell text invokes
RunShellValidatesText ==
    \E s \in ShellTexts : Enter("RunShell", s, <<dashC, s>>, <<>>)

\* RunShell(s) is Run("sh", ["-c", s])
RunShell == \E s \in ShellTexts : Enter("RunShell", cmdSh, <<dashC, s>>, <<>>)

RunWithStdin ==
    \E stdin \in {<<>>, <<1>>} : Enter("RunWithStdin", cmdLs, <<>>, stdin)

\* ContainerCreate
Create ==
    /\ call.pc = "create"
    /\ \E ok \in BOOLEAN :
          IF ctx # "live"
          THEN Return(Append(api, Req("ContainerCreate", FALSE)), box, CtxErr, NoResult, ok)
          ELSE IF ~ok
          THEN Return(Append(api, Req("ContainerCreate", FALSE)), box,
                      Wrap(PlainErr("create")), NoResult, ok)
          ELSE /\ api' = Append(api, Req("ContainerCreate", TRUE))
               /\ box' = [NoBox EXCEPT !.state = "created",
                                       !.network = dconfig.NetworkMode,
                                       !.cmd = <<call.command>> \o call.args]
               /\ call' = [call EXCEPT !.created = TRUE,
                              !.pc = IF call.op = "RunWithStdin"
                                     THEN "attach" ELSE "start"]
               /\ UNCHANGED <<ctx, calls, hostSet, dconfig, dret>>
    /\ UNCHANGED <<bridgeVars, wasmVars, concVars, sinkVars, unitVars>>

\* ContainerAttach (RunWithStdin)
Attach ==
    /\ call.pc = "attach"
    /\ \E ok \in BOOLEAN, removeOk \in BOOLEAN :
          IF ctx # "live"
          THEN Return(Append(api, Req("ContainerAttach", FALSE)), box, CtxErr, NoResult, removeOk)
          ELSE IF ~ok
          THEN Return(Append(api, Req("ContainerAttach", FALSE)), box,
                      Wrap(PlainErr("attach")), NoResult, removeOk)
          ELSE /\ api' = Append(api, Req("ContainerAttach", TRUE))
               /\ call' = [call EXCEPT !.pc = "start"]
               /\ UNCHANGED <<ctx, calls, hostSet, dconfig, dret, box>>
    /\ UNCHANGED <<bridgeVars, wasmVars, concVars, sinkVars, unitVars>>

\* ContainerStart
Start ==
    /\ call.pc = "start"
    /\ \E ok \in BOOLEAN, removeOk \in BOOLEAN :
          IF ctx # "live"
          THEN Return(Append(api, Req("ContainerStart", FALSE)), box, CtxErr, NoResult, removeOk)
          ELSE IF ~ok
          THEN Return(Append(api, Req("ContainerStart", FALSE)), box,
                      Wrap(PlainErr("start")), NoResult, removeOk)
          ELSE /\ api' = Append(api, Req("ContainerStart", TRUE))
               /\ box' = [box EXCEPT !.state = "running"]
               /\ call' = [call EXCEPT !.pc = IF call.op = "RunWithStdin"
                                             THEN "stdin" ELSE "wait"]
               /\ UNCHANGED <<ctx, calls, hostSet, dconfig, dret>>
    /\ UNCHANGED <<bridgeVars, wasmVars, concVars, sinkVars, unitVars>>

\* RunWithStdin closing the write side only after it wrote something
WriteStdinCloseIfWritten ==
    /\ call.pc = "stdin"
    /\ \E ok \in BOOLEAN, removeOk \in BOOLEAN :
          IF Len(call.stdin) > 0 /\ ~ok
          THEN Return(Append(api, ConnReq("Write", FALSE)),
                      box, Wrap(PlainErr("write stdin")), NoResult, removeOk)
          ELSE /\ api' = api
                    \o (IF Len(call.stdin) > 0
                        THEN <<ConnReq("Write", TRUE), ConnReq("CloseWrite", TRUE)>>
                        ELSE <<>>)
               /\ call' = [call EXCEPT !.pc = "copy"]
               /\ UNCHANGED <<ctx, calls, hostSet, dconfig, dret, box>>
    /\ UNCHANGED <<bridgeVars, wasmVars, concVars, sinkVars, unitVars>>

\* RunWithStdin: write the stdin bytes to the attached connection, if any,
\* and close its write side
WriteStdin ==
    /\ call.pc = "stdin"
    /\ \E ok \in BOOLEAN, removeOk \in BOOLEAN :
          IF Len(call.stdin) > 0 /\ ~ok
          THEN Return(Append(api, ConnReq("Write", FALSE)),
                      box, Wrap(PlainErr("write stdin")), NoResult, removeOk)
          ELSE /\ api' = api
                    \o (IF Len(call.stdin) > 0
                        THEN <<ConnReq("Write", TRUE)>>
                        ELSE <<>>)
                    \o <<ConnReq("CloseWrite", TRUE)>>
               /\ call' = [call EXCEPT !.pc = "copy"]
               /\ UNCHANGED <<ctx, calls, hostSet, dconfig, dret, box>>
    /\ UNCHANGED <<bridgeVars, wasmVars, concVars, sinkVars, unitVars>>

\* RunWithStdin: StdCopy of the attached stream, which ends when the
\* container has ended
CopyAttached ==
    /\ call.pc = "copy"
    /\ box.state \in {"exited", "removed"}
    /\ \E r \in {StdCopy(NewLimitedWriter(MaxBytes(dconfig)),
                         NewLimitedWriter(MaxBytes(dconfig)), box.frames)} :
          call' = [call EXCEPT !.pc = "wait", !.out = r.out, !.errb = r.err]
    /\ UNCHANGED <<ctx, calls, hostSet, dconfig, dret, box, api>>
    /\ UNCHANGED <<bridgeVars, wasmVars, concVars, sinkVars, unitVars>>

\* ContainerWait(WaitConditionNotRunning): the request is refused when the
\* context is done or the container is gone, answered at once when the
\* container has ended, and pending otherwise
WaitCall ==
    /\ call.pc = "wait"
    /\ api' = Append(api, Req("ContainerWait", ctx = "live" /\ box.state # "removed"))
    /\ call' = [call EXCEPT !.pc = "select",
                   !.wait = IF ctx # "live" THEN "ctxErr"
                            ELSE IF box.state = "removed" THEN "daemonErr"
                            ELSE IF box.state = "exited" THEN "result"
                            ELSE "pending"]
    /\ UNCHANGED <<ctx, calls, hostSet, dconfig, dret, box>>
    /\ UNCHANGED <<bridgeVars, wasmVars, concVars, sinkVars, unitVars>>

\* the select on waitResult.Error and waitResult.Result
Select ==
    /\ call.pc = "select"
    /\ call.wait # "pending"
    /\ \E stopOk \in BOOLEAN, removeOk \in BOOLEAN :
          IF call.wait = "result"
          THEN IF call.op = "RunWithStdin"
               THEN Return(api, box, NilErr,
                           [has |-> TRUE, code |-> box.code, out |-> call.out,
                            err |-> call.errb], removeOk)
               ELSE /\ call' = [call EXCEPT !.pc = "logs", !.exitCode = box.code]
                    /\ UNCHANGED <<ctx, calls, hostSet, dconfig, dret, box, api>>
          ELSE IF ctx = "deadline"
          THEN Return(Append(api, StopReq(stopOk)), AfterStop(box, stopOk),
                      NewTimeoutError, NoResult, removeOk)
          ELSE Return(api, box, Wrap(PlainErr("wait")), NoResult, removeOk)
    /\ UNCHANGED <<bridgeVars, wasmVars, concVars, sinkVars, unitVars>>

\* Run: ContainerLogs, StdCopy of the log stream, and the Result
Logs ==
    /\ call.pc = "logs"
    /\ \E removeOk \in BOOLEAN :
          IF ctx # "live"
          THEN Return(Append(api, Req("ContainerLogs", FALSE)), box, CtxErr, NoResult, removeOk)
          ELSE IF box.state = "removed"
          THEN Return(Append(api, Req("ContainerLogs", FALSE)), box,
                      Wrap(PlainErr("no such container")), NoResult, removeOk)
          ELSE \E r \in {StdCopy(NewLimitedWriter(MaxBytes(dconfig)),
                                 NewLimitedWriter(MaxBytes(dconfig)), box.frames)} :
                  Return(Append(api, Req("ContainerLogs", TRUE)), box, NilErr,
                         [has |-> TRUE, code |-> call.exitCode, out |-> r.out,
                          err |-> r.err], removeOk)
    /\ UNCHANGED <<bridgeVars, wasmVars, concVars, sinkVars, unitVars>>

\* what a container writes before it ends: frames of the log stream
TestFrames ==
    { <<>>,
      <<[stream |-> "stdout", data |-> <<1, 2, 3>>]>>,
      <<[stream |-> "stderr", data |-> <<4>>], [stream |-> "stdout", data |-> <<1>>]>>,
      <<[stream |-> "stdout", data |-> <<1, 2, 3>>], [stream |-> "stderr", data |-> <<4>>]>> }

\* the command in the container ends by itself
ContainerExits ==
    /\ call.pc # "idle"
    /\ box.state = "running"
    /\ \E code \in 0..MaxExit, frames \in TestFrames :
          box' = [box EXCEPT !.state = "exited", !.code = code, !.how = "self",
                             !.frames = frames]
    /\ call' = [call EXCEPT !.wait = IF @ = "pending" THEN "result" ELSE @]
    /\ UNCHANGED <<ctx, calls, hostSet, dconfig, dret, api>>
    /\ UNCHANGED <<bridgeVars, wasmVars, concVars, sinkVars, unitVars>>

\* HostConfig.AutoRemove: the daemon removes the container that has ended
AutoRemove ==
    /\ call.pc # "idle"
    /\ box.state = "exited"
    /\ box' = [box EXCEPT !.state = "removed"]
    /\ UNCHANGED <<ctx, calls, hostSet, dconfig, dret, api, call>>
    /\ UNCHANGED <<bridgeVars, wasmVars, concVars, sinkVars, unitVars>>

\* the deadline of context.WithTimeout(ctx, d.config.Timeout) elapses
DeadlineElapses ==
    /\ call.pc # "idle"
    /\ dconfig.Timeout > 0
    /\ ctx = "live"
    /\ ctx' = "deadline"
    /\ call' = [call EXCEPT !.wait = IF @ = "pending" THEN "ctxErr" ELSE @,
                            !.deadlineWhileRunning = (box.state = "running")]
    /\ UNCHANGED <<calls, hostSet, dconfig, dret, api, box>>
    /\ UNCHANGED <<bridgeVars, wasmVars, concVars, sinkVars, unitVars>>

\* the caller cancels the context it passed
CallerCancels ==
    /\ call.pc # "idle"
    /\ ctx = "live"
    /\ ctx' = "cancelled"
    /\ call' = [call EXCEPT !.wait = IF @ = "pending" THEN "ctxErr" ELSE @]
    /\ UNCHANGED <<calls, hostSet, dconfig, dret, api, box>>
    /\ UNCHANGED <<bridgeVars, wasmVars, concVars, sinkVars, unitVars>>

ZeroPolicy ==
    [Capabilities |-> {}, AllowedPaths |-> <<>>, WorkingDir |-> <<>>,
     AllowedHosts |-> <<>>, AllowedCommands |-> <<>>, MaxOutputBytes |-> 0]

\* the DockerConfigs explored: mounts, timeouts and output caps under the
\* default network mode, and two other NetworkMode strings (upper case, and
\* another container's namespace) without mounts
DockerConfigs ==
    [Mounts : {<<>>, <<pA>>, <<pA, pO>>}, Timeout : {0, 30}, MaxOutputBytes : {0, 2},
     NetworkMode : {<<"n", "o", "n", "e">>}]
    \cup [Mounts : {<<>>}, Timeout : {0}, MaxOutputBytes : {0},
          NetworkMode : {<<"H", "O", "S", "T">>, <<"c", ":", "x">>}]

InitDocker ==
    /\ \/ hostSet = FALSE /\ config = ZeroPolicy
       \/ hostSet = TRUE
          /\ config \in {p \in Policies : p.Capabilities \in {{}, {CapExecRun}}}
    /\ dconfig \in DockerConfigs
    /\ fs = InitFS
    /\ last = NoLast
    /\ made = {}
    /\ call = IdleCall
    /\ ctx = "live"
    /\ box = NoBox
    /\ api = <<>>
    /\ dret = NoReturn
    /\ calls = 0
    /\ WasmIdle
    /\ ConcIdle
    /\ SinkIdle
    /\ UnitsIdle

NextDocker ==
    \/ Run
    \/ RunShell
    \/ RunWithStdin
    \/ Create
    \/ Attach
    \/ Start
    \/ WriteStdin
    \/ CopyAttached
    \/ WaitCall
    \/ Select
    \/ Logs
    \/ ContainerExits
    \/ AutoRemove
    \/ DeadlineElapses
    \/ CallerCancels

SpecDocker == InitDocker /\ [][NextDocker]_vars

-----------------------------------------------------------------------------
(* Properties of the container backend.                                    *)

\* C5: with a Policy attached, a Run / RunShell / RunWithStdin call whose
\* command validateCommand refuses, or one of whose mounts has a host path
\* the Path Validator refuses, has returned an error in which kind
\* capability is found, has issued no request to the daemon and has
\* created no container.
C5_ChecksBeforeDaemon ==
    ( /\ hostSet
      /\ call.op # "none"
      /\ \/ IsErr(validateCommand(config, call.command))
         \/ \E i \in DOMAIN dconfig.Mounts :
               IsErr(validatePath(config, fs, dconfig.Mounts[i]).err) ) =>
        /\ call.pc = "idle"
        /\ dret.err.kind = "capability"
        /\ ~dret.hasResult
        /\ api = <<>>
        /\ box.state = "none"
        /\ ~call.created

C5_Witness ==
    /\ hostSet
    /\ call.pc = "idle"
    /\ call.op = "RunWithStdin"
    /\ ~IsErr(validateCommand(config, call.command))
    /\ dconfig.Mounts = <<pA, pO>>
    /\ ~IsErr(validatePath(config, fs, pA).err)
    /\ IsErr(validatePath(config, fs, pO).err)
    /\ dret.err.kind = "capability"
    /\ api = <<>>

\* C6: whenever a call that created a container has returned, the last
\* request it issued is a forced ContainerRemove under a fresh 5 s
\* deadline, whatever the path it returned by and whatever the state of
\* the caller's context.
C6_RemovalOnEveryExit ==
    (call.pc = "idle" /\ call.created) =>
        /\ api # <<>>
        /\ Last(api).name = "ContainerRemove"
        /\ Last(api).force
        /\ Last(api).ctx = "fresh5s"
        /\ \E i \in DOMAIN api : api[i].name = "ContainerCreate" /\ api[i].ok

C6_Witness ==
    /\ call.pc = "idle"
    /\ call.created
    /\ ctx = "cancelled"
    /\ IsErr(dret.err)
    /\ Last(api).name = "ContainerRemove"
    /\ Last(api).ok
    /\ box.state = "removed"

\* a Run whose deadline elapsed while its container was running has returned
DeadlineCase ==
    /\ call.pc = "idle"
    /\ call.op \in {"Run", "RunShell"}
    /\ call.deadlineWhileRunning

StopIssued ==
    \E i \in DOMAIN api : api[i].name = "ContainerStop" /\ api[i].ctx = "fresh5s"

C9_NonZeroExitIsResult ==
    /\ (last.op = "ExecRun" /\ last.how = "exit" /\ last.pcode # 0) =>
          /\ last.err = NilErr
          /\ last.code = last.pcode
    /\ ( /\ call.pc = "idle"
         /\ call.op \in {"Run", "RunShell"}
         /\ ctx = "live"
         /\ box.how = "self"
         /\ box.code # 0 ) =>
          /\ dret.err = NilErr
          /\ dret.hasResult
          /\ dret.ExitCode = box.code

-----------------------------------------------------------------------------
(* Bytecode Execution Backend (Runtime).                                   *)
(*                                                                         *)
(* A module is given by what its _start function does: it writes out,     *)
(* the content of its data segment, to stdout, copies its stdin to stdout  *)
(* and then returns, calls proc_exit(code), traps, or spins until its      *)
(* context is done.  Bytes that are not a module have valid = FALSE.       *)

\* limitedBuffer.Write: the buffer after the write and the count returned
limitedBufferWrite(b, p) ==
    IF b.max > 0 /\ Len(b.buf) + Len(p) > b.max
    THEN LET remaining == b.max - Len(b.buf)
         IN  IF remaining > 0
             THEN [b |-> [b EXCEPT !.buf = @ \o SubSeq(p, 1, remaining)],
                   n |-> remaining]
             ELSE [b |-> b, n |-> 0]
    ELSE [b |-> [b EXCEPT !.buf = @ \o p], n |-> Len(p)]

\* Runtime.InstantiateModule with _start as start function, on a runtime
\* closing modules when the context is done: the error it returns.  An
\* exit with status 0 is no error; any other exit is a sys.ExitError.
\* cancelled: the caller cancels while the module spins.  trapLate: the
\* module traps so late that the deadline has passed when ctx.Err() is read.
InstantiateModule(wasm, cancelled) ==
    CASE wasm.ends = "return" -> [err |-> "nil", ctxErr |-> "nil", status |-> 0]
      [] wasm.ends = "exit" ->
           [err |-> IF wasm.code = 0 THEN "nil" ELSE "ExitError",
            ctxErr |-> "nil", status |-> wasm.code]
      [] wasm.ends = "trap" -> [err |-> "trap", ctxErr |-> "nil", status |-> 0]
      [] wasm.ends = "trapLate" ->
           [err |-> "trap", ctxErr |-> "DeadlineExceeded", status |-> 0]
      [] wasm.ends = "spin" ->
           IF cancelled
           THEN [err |-> "ExitError", ctxErr |-> "Canceled", status |-> 0]
           ELSE [err |-> "ExitError", ctxErr |-> "DeadlineExceeded", status |-> 0]

\* a spinning module ends only by its deadline or by the caller's cancel
Terminates(wasm, timeout, cancelled) ==
    /\ (wasm.ends = "spin") => (cancelled \/ timeout > 0)
    /\ (wasm.ends = "trapLate") => (timeout > 0)
    /\ cancelled => (wasm.ends = "spin")

\* wazero CompileModule: the compiled module keeps the bytes it was made
\* from and the memory image every instance of it starts from
CompileModule(wasm) == [wasm |-> wasm, image |-> wasm.out]

\* what a new instance of a compiled module runs
Program(compiled) == [compiled.wasm EXCEPT !.out = compiled.image]

\* executeModule reporting a timeout for every ended context
executeModuleAnyCtxErr(rc, wasm, stdin, cancelled) ==
    LET r == InstantiateModule(wasm, cancelled)
        stdoutBuf == limitedBufferWrite(
                        limitedBufferWrite([buf |-> <<>>, max |-> rc.MaxOutputBytes],
                                           wasm.out).b,
                        stdin).b
    IN  IF r.err # "nil"
        THEN IF r.ctxErr # "nil"
             THEN [err |-> NewTimeoutError, hasResult |-> FALSE, ExitCode |-> 0,
                   Output |-> <<>>, Error |-> <<>>,
                   ctxErr |-> r.ctxErr, instErr |-> r.err]
             ELSE [err |-> ExecutionError("runtime", r.err), hasResult |-> FALSE,
                   ExitCode |-> 0, Output |-> <<>>, Error |-> <<>>,
                   ctxErr |-> r.ctxErr, instErr |-> r.err]
        ELSE [err |-> NilErr, hasResult |-> TRUE, ExitCode |-> 0,
              Output |-> stdoutBuf.buf, Error |-> <<>>,
              ctxErr |-> r.ctxErr, instErr |-> r.err]

\* Runtime.executeModule; ctxErr and instErr record what ctx.Err() and
\* InstantiateModule returned
executeModule(rc, wasm, stdin, cancelled) ==
    LET r == InstantiateModule(wasm, cancelled)
        stdoutBuf == limitedBufferWrite(
                        limitedBufferWrite([buf |-> <<>>, max |-> rc.MaxOutputBytes],
                                           wasm.out).b,
                        stdin).b
    IN  IF r.err # "nil"
        THEN IF r.ctxErr = "DeadlineExceeded"
             THEN [err |-> NewTimeoutError, hasResult |-> FALSE, ExitCode |-> 0,
                   Output |-> <<>>, Error |-> <<>>,
                   ctxErr |-> r.ctxErr, instErr |-> r.err]
             ELSE [err |-> ExecutionError("runtime", r.err), hasResult |-> FALSE,
                   ExitCode |-> 0, Output |-> <<>>, Error |-> <<>>,
                   ctxErr |-> r.ctxErr, instErr |-> r.err]
        ELSE [err |-> NilErr, hasResult |-> TRUE, ExitCode |-> 0,
              Output |-> stdoutBuf.buf, Error |-> <<>>,
              ctxErr |-> r.ctxErr, instErr |-> r.err]

ModuleNames == {"m1", "m2"}

TestStdin == {<<>>, <<9>>}

TestModules ==
    { w \in [valid : BOOLEAN, ends : {"return", "exit", "trap", "trapLate", "spin"},
             code : 0..MaxExit, out : {<<>>, <<1, 2, 3>>}] :
        /\ (w.ends # "exit") => (w.code = 0)
        /\ (~w.valid) => (w.ends = "return" /\ w.out = <<>>) }

\* what the caller gets back, with what the module did
WasmReturn(op, name, r, wasm, ran) ==
    [op |-> op, name |-> name, err |-> r.err, hasResult |-> r.hasResult,
     ExitCode |-> r.ExitCode, Output |-> r.Output, Error |-> r.Error,
     ran |-> ran, ends |-> IF ran THEN wasm.ends ELSE "none",
     status |-> IF ran /\ wasm.ends = "exit" THEN wasm.code ELSE 0,
     ctxErr |-> r.ctxErr, instErr |-> r.instErr]

NoRun(cause) ==
    [err |-> Wrap(PlainErr(cause)), hasResult |-> FALSE, ExitCode |-> 0,
     Output |-> <<>>, Error |-> <<>>, ctxErr |-> "nil", instErr |-> "nil"]

\* Runtime.Compile dropping the cached entry of the name when the bytes do
\* not compile
CompileDropsOnFailure ==
    \E name \in ModuleNames, wasm \in TestModules :
       /\ IF wasm.valid
          THEN /\ modules' = [n \in DOMAIN modules \cup {name} |->
                                IF n = name THEN CompileModule(wasm)
                                ELSE modules[n]]
               /\ wret' = [NoWasmReturn EXCEPT !.op = "Compile", !.name = name]
          ELSE /\ modules' = [n \in DOMAIN modules \ {name} |-> modules[n]]
               /\ wret' = WasmReturn("Compile", name, NoRun("compile module"), wasm, FALSE)
       /\ UNCHANGED <<rconfig, bridgeVars, dockerVars, concVars, sinkVars, unitVars>>

\* Runtime.Compile
Compile ==
    \E name \in ModuleNames, wasm \in TestModules :
       /\ IF wasm.valid
          THEN /\ modules' = [n \in DOMAIN modules \cup {name} |->
                                IF n = name THEN CompileModule(wasm)
                                ELSE modules[n]]
               /\ wret' = [NoWasmReturn EXCEPT !.op = "Compile", !.name = name]
          ELSE /\ modules' = modules
               /\ wret' = WasmReturn("Compile", name, NoRun("compile module"), wasm, FALSE)
       /\ UNCHANGED <<rconfig, bridgeVars, dockerVars, concVars, sinkVars, unitVars>>

\* Runtime.Execute
Execute ==
    \E name \in ModuleNames, stdin \in TestStdin, cancelled \in BOOLEAN :
       /\ IF name \notin DOMAIN modules
          THEN /\ ~cancelled
               /\ wret' = [NoWasmReturn EXCEPT !.op = "Execute", !.name = name,
                              !.err = PlainErr("module not found")]
          ELSE /\ Terminates(Program(modules[name]), rconfig.Timeout, cancelled)
               /\ \E r \in {executeModule(rconfig, Program(modules[name]), stdin,
                                           cancelled)} :
                     wret' = WasmReturn("Execute", name, r, Program(modules[name]), TRUE)
       /\ UNCHANGED <<modules, rconfig, bridgeVars, dockerVars, concVars, sinkVars, unitVars>>

\* Runtime.ExecuteBytes
ExecuteBytes ==
    \E wasm \in TestModules, stdin \in TestStdin, cancelled \in BOOLEAN :
       /\ IF ~wasm.valid
          THEN /\ ~cancelled
               /\ wret' = WasmReturn("ExecuteBytes", "none", NoRun("compile module"),
                                     wasm, FALSE)
          ELSE /\ Terminates(wasm, rconfig.Timeout, cancelled)
               /\ \E r \in {executeModule(rconfig, Program(CompileModule(wasm)), stdin,
                                           cancelled)} :
                     wret' = WasmReturn("ExecuteBytes", "none", r, wasm, TRUE)
       /\ UNCHANGED <<modules, rconfig, bridgeVars, dockerVars, concVars, sinkVars, unitVars>>

InitWasm ==
    /\ config = ZeroPolicy
    /\ fs = InitFS
    /\ last = NoLast
    /\ made = {}
    /\ DockerIdle
    /\ modules = <<>>
    /\ wret = NoWasmReturn
    /\ rconfig \in [Timeout : {0, 30}, MaxOutputBytes : {0, 2}]
    /\ ConcIdle
    /\ SinkIdle
    /\ UnitsIdle

NextWasm ==
    \/ Compile
    \/ Execute
    \/ ExecuteBytes

SpecWasm == InitWasm /\ [][NextWasm]_vars

\* C10: in the bytecode backend a module that ends with a non-zero exit
\* status k is reported as a Result with ExitCode k and a nil error, and
\* the ExitCode of every returned Result is the exit status of the module.
C10_ExitStatusInResult ==
    /\ (wret.ran /\ wret.ends = "exit" /\ wret.status # 0) =>
          /\ wret.err = NilErr
          /\ wret.hasResult
          /\ wret.ExitCode = wret.status
    /\ (wret.ran /\ wret.hasResult) => wret.ExitCode = wret.status

-----------------------------------------------------------------------------
(* The output sinks under any sequence of writes: a limitedWriter and a    *)
(* limitedBuffer with the same cap are given the same writes, whatever     *)
(* counts they return.                                                     *)

Bytes == {0, 1}

\* the arguments of one Write: from the empty slice to one longer than the cap
Chunks == UNION {[1..k -> Bytes] : k \in 0..(MaxCap + 1)}

InitSink ==
    /\ config = ZeroPolicy
    /\ fs = InitFS
    /\ last = NoLast
    /\ made = {}
    /\ DockerIdle
    /\ WasmIdle
    /\ ConcIdle
    /\ UnitsIdle
    /\ sink \in {[max |-> m, stream |-> <<>>, w |-> NewLimitedWriter(m),
                  b |-> [buf |-> <<>>, max |-> m], wBefore |-> <<>>,
                  bBefore |-> <<>>, writes |-> 0] : m \in 0..MaxCap}

\* one Write(p) on each of the two sinks
SinkWrite ==
    /\ \E p \in Chunks :
          /\ Len(sink.stream) + Len(p) <= MaxStream
          /\ sink' = [sink EXCEPT !.stream = @ \o p,
                                  !.w = limitedWriterWrite(@, p).w,
                                  !.b = limitedBufferWrite(@, p).b,
                                  !.wBefore = sink.w.buf,
                                  !.bBefore = sink.b.buf,
                                  !.writes = IF @ < 2 THEN @ + 1 ELSE @]
    /\ UNCHANGED <<bridgeVars, dockerVars, wasmVars, concVars, unitVars>>

NextSink == SinkWrite

SpecSink == InitSink /\ [][NextSink]_vars

\* the first min(Len(s), n) elements of s
Prefix(s, n) == SubSeq(s, 1, IF Len(s) < n THEN Len(s) ELSE n)

\* C11: for a positive cap M and any sequence of writes, each sink retains
\* at most M bytes, exactly the first min(total written, M) bytes of the
\* stream, and a write to a sink that already retains M bytes adds nothing.
C11_SinkKeepsPrefix ==
    (sink.max > 0) =>
        /\ Len(sink.w.buf) <= sink.max
        /\ Len(sink.b.buf) <= sink.max
        /\ sink.w.buf = Prefix(sink.stream, sink.max)
        /\ sink.b.buf = Prefix(sink.stream, sink.max)
        /\ (Len(sink.wBefore) = sink.max) => (sink.w.buf = sink.wBefore)
        /\ (Len(sink.bBefore) = sink.max) => (sink.b.buf = sink.bBefore)

C11_Witness ==
    /\ sink.max = 2
    /\ Len(sink.stream) > 3
    /\ sink.writes = 2
    /\ Len(sink.wBefore) = 2
    /\ sink.w.buf = SubSeq(sink.stream, 1, 2)
    /\ sink.b.buf = SubSeq(sink.stream, 1, 2)

-----------------------------------------------------------------------------
(* Properties of the bridge: truncation, defaults, error values, hosts.    *)

\* C12: when the subprocess of ExecRun ends by itself with status 0 after
\* writing more than max_output_bytes to stdout, ExecRun returns a nil
\* error and the truncated output.
C12_TruncationIsNoError ==
    ( /\ last.op = "ExecRun"
      /\ last.how = "exit"
      /\ last.pcode = 0
      /\ config.MaxOutputBytes > 0
      /\ Len(last.wrote) > config.MaxOutputBytes ) =>
        /\ last.err = NilErr
        /\ last.stdout = Prefix(last.wrote, config.MaxOutputBytes)

\* C13: a max_output_bytes of 0 means a cap of 1 MiB: HTTPFetch returns the
\* first min(length, cap) bytes of the response body, where the cap is
\* max_output_bytes, or 1 MiB when that is 0; FSRead and ExecRun return at
\* most that many bytes.
C13_ZeroMeansDefaultCap ==
    /\ (last.op = "HTTPFetch" /\ last.how = "response") =>
          last.data = LimitRead(last.wrote, MaxBytes(config))
    /\ (last.op \in {"FSRead", "ExecRun"}) =>
          /\ Len(last.data) <= MaxBytes(config)
          /\ Len(last.stdout) <= MaxBytes(config)
          /\ Len(last.stderr) <= MaxBytes(config)

\* C14: a container Run / RunShell / RunWithStdin that failed after its
\* context had ended, by deadline or by the caller's cancellation and at
\* whichever step, has returned an ExecutionError of kind timeout, never a
\* generic wrapped error.
C14_ContextEndIsTimeout ==
    ( /\ call.pc = "idle"
      /\ call.op # "none"
      /\ ctx \in {"deadline", "cancelled"}
      /\ IsErr(dret.err) ) =>
        dret.err = NewTimeoutError

-----------------------------------------------------------------------------
(* Progress of a container call.  The goroutine of the call always takes   *)
(* its next statement when that statement can return, and the daemon       *)
(* answers every request; nothing obliges the container to end.            *)

InitDockerLive ==
    /\ InitDocker
    /\ hostSet = FALSE
    /\ dconfig.Mounts = <<>>
    /\ dconfig.Timeout > 0

\* the statements of the call in progress
CallSteps ==
    \/ Create
    \/ Attach
    \/ Start
    \/ WriteStdin
    \/ CopyAttached
    \/ WaitCall
    \/ Select
    \/ Logs

SpecDockerLive == InitDockerLive /\ [][NextDocker]_vars /\ WF_vars(CallSteps)

\* C15: once the deadline of a container call has elapsed the call returns,
\* even if its container never ends and never closes its output stream.
C15_DeadlineBoundsCall ==
    (ctx = "deadline" /\ call.pc # "idle") ~> (call.pc = "idle")

\* C16: every error returned by a bridge operation, by the container
\* backend and by the bytecode backend is itself an ExecutionError of kind
\* capability, timeout, memory or runtime, not an untyped wrapped error.
C16_ErrorsAreExecutionErrors ==
    \A e \in {last.err, dret.err, wret.err} :
       IsErr(e) => (e.typed /\ e.kind \in Kinds)

\* the host of a URL scheme://host/path?query: what lies between the first
\* "//" and the next "/"
HostOf(url) ==
    LET starts == {i \in 1..(Len(url) - 1) : url[i] = "/" /\ url[i + 1] = "/"}
        from == IF starts = {} THEN 1
                ELSE (CHOOSE i \in starts : \A j \in starts : i <= j) + 2
        stops == {i \in from..Len(url) : url[i] = "/"}
        to == IF stops = {} THEN Len(url)
              ELSE (CHOOSE i \in stops : \A j \in stops : i <= j) - 1
    IN  SubSeq(url, from, to)

\* C20: with net_http granted and a non-empty allowed_hosts, HTTPFetch
\* rejects with kind capability, before any network call, every URL whose
\* host is not an allowed entry, also when an allowed entry occurs in its
\* path or query, and accepts a URL whose host is an allowed entry.
C20_OnlyAllowedHosts ==
    ( /\ last.op = "HTTPFetch"
      /\ CapNetHTTP \in config.Capabilities
      /\ Len(config.AllowedHosts) > 0 ) =>
        IF \E i \in DOMAIN config.AllowedHosts : HostOf(last.arg) = config.AllowedHosts[i]
        THEN last.failedAt # "validateHost"
        ELSE /\ last.err.typed
             /\ last.err.kind = "capability"
             /\ ~last.requested

-----------------------------------------------------------------------------
(* Concurrent calls on one Runtime.  Each goroutine executes the           *)
(* statements of the method it called, one at a time; procs[t].pc is the   *)
(* index of its next statement, 0 when it is in no call.  live holds what  *)
(* is open: the instance and the one-shot compiled module of goroutine t,  *)
(* and the compiled module cached under a name.                            *)

\* Execute releasing the mutex only after the module has run
StatementsUnlockLate(op) ==
    CASE op = "Compile" -> <<"Lock", "CompileModule", "Insert", "Return">>
      [] op = "Execute" ->
           <<"Lock", "Lookup", "Check", "Instantiate", "Run", "Unlock", "Return">>
      [] op = "ExecuteBytes" -> <<"CompileModule", "Instantiate", "Run", "Return">>

\* the statements of Compile, Execute and ExecuteBytes (executeModule
\* inlined), in order; deferred calls run at Return
Statements(op) ==
    CASE op = "Compile" -> <<"Lock", "CompileModule", "Insert", "Return">>
      [] op = "Execute" ->
           <<"Lock", "Lookup", "Unlock", "Check", "Instantiate", "Run", "Return">>
      [] op = "ExecuteBytes" -> <<"CompileModule", "Instantiate", "Run", "Return">>

\* ExecuteBytes without its deferred compiled.Close
DeferredNoClose(op) ==
    CASE op = "Compile" -> {"Unlock"}
      [] op = "Execute" -> {}
      [] op = "ExecuteBytes" -> {}

\* the calls each method defers
Deferred(op) ==
    CASE op = "Compile" -> {"Unlock"}
      [] op = "Execute" -> {}
      [] op = "ExecuteBytes" -> {"compiled.Close"}

\* an execution leaving the memory of its instance in the compiled module
CompiledAfterRunShared(compiled, memory) == [compiled EXCEPT !.image = memory]

\* the compiled module after one of its instances has run and ended with
\* the given memory: instances do not write to the module they come from
CompiledAfterRun(compiled, memory) == compiled

\* the statement goroutine t executes next
Stmt(t) ==
    IF procs[t].pc = 0 THEN "idle" ELSE Statements(procs[t].op)[procs[t].pc]

Advance(t) == [procs EXCEPT ![t].pc = @ + 1]

\* goroutine t jumps to the return of its method with an error
Fail(t, err) ==
    [procs EXCEPT ![t].pc = Len(Statements(procs[t].op)), ![t].err = err]

\* the modules given to the concurrent calls: one that prints and returns,
\* one that traps, one that spins, and bytes that are no module
ConcModules ==
    { w \in TestModules :
        \/ ~w.valid
        \/ w.ends \in {"return", "trap", "spin"} /\ w.out = <<1, 2, 3>> }

\* what the calls on the Runtime leave alone
runtimeRest == <<bridgeVars, dockerVars, wret, rconfig, sinkVars, unitVars>>

CallCompile(t) ==
    /\ procs[t].pc = 0
    /\ \E name \in ModuleNames, wasm \in ConcModules :
          procs' = [procs EXCEPT ![t] = [IdleProc EXCEPT !.op = "Compile",
                                            !.name = name, !.wasm = wasm, !.pc = 1]]
    /\ UNCHANGED <<mu, live, modules, runtimeRest>>

CallExecute(t) ==
    /\ procs[t].pc = 0
    /\ \E name \in ModuleNames, stdin \in TestStdin :
          procs' = [procs EXCEPT ![t] = [IdleProc EXCEPT !.op = "Execute",
                                            !.name = name, !.stdin = stdin, !.pc = 1]]
    /\ UNCHANGED <<mu, live, modules, runtimeRest>>

CallExecuteBytes(t) ==
    /\ procs[t].pc = 0
    /\ \E wasm \in ConcModules, stdin \in TestStdin :
          procs' = [procs EXCEPT ![t] = [IdleProc EXCEPT !.op = "ExecuteBytes",
                                            !.wasm = wasm, !.stdin = stdin, !.pc = 1]]
    /\ UNCHANGED <<mu, live, modules, runtimeRest>>

\* r.mu.Lock()
Lock(t) ==
    /\ Stmt(t) = "Lock"
    /\ mu = "free"
    /\ mu' = t
    /\ procs' = Advance(t)
    /\ UNCHANGED <<live, modules, runtimeRest>>

\* r.mu.Unlock()
Unlock(t) ==
    /\ Stmt(t) = "Unlock"
    /\ mu' = "free"
    /\ procs' = Advance(t)
    /\ UNCHANGED <<live, modules, runtimeRest>>

\* compiled, ok := r.modules[name]
Lookup(t) ==
    /\ Stmt(t) = "Lookup"
    /\ procs' = [Advance(t) EXCEPT
                   ![t].found = procs[t].name \in DOMAIN modules,
                   ![t].compiled = IF procs[t].name \in DOMAIN modules
                                   THEN modules[procs[t].name] ELSE <<>>,
                   ![t].wasm = IF procs[t].name \in DOMAIN modules
                               THEN modules[procs[t].name].wasm ELSE <<>>]
    /\ UNCHANGED <<mu, live, modules, runtimeRest>>

\* if !ok { return nil, fmt.Errorf("module not found: %s", name) }
Check(t) ==
    /\ Stmt(t) = "Check"
    /\ procs' = IF procs[t].found THEN Advance(t)
                ELSE Fail(t, PlainErr("module not found"))
    /\ UNCHANGED <<mu, live, modules, runtimeRest>>

\* r.runtime.CompileModule(ctx, wasm), and in ExecuteBytes the registration
\* of the deferred compiled.Close
CompileModuleStep(t) ==
    /\ Stmt(t) = "CompileModule"
    /\ IF procs[t].wasm.valid
       THEN /\ procs' = [Advance(t) EXCEPT ![t].compiled = CompileModule(procs[t].wasm)]
            /\ live' = IF procs[t].op = "ExecuteBytes"
                       THEN live \cup {<<"compiled", t>>} ELSE live
       ELSE /\ procs' = Fail(t, Wrap(PlainErr("compile module")))
            /\ live' = live
    /\ UNCHANGED <<mu, modules, runtimeRest>>

\* r.modules[name] = compiled
Insert(t) ==
    /\ Stmt(t) = "Insert"
    /\ modules' = [n \in DOMAIN modules \cup {procs[t].name} |->
                     IF n = procs[t].name THEN procs[t].compiled ELSE modules[n]]
    /\ live' = live \cup {<<"compiled", procs[t].name>>}
    /\ procs' = Advance(t)
    /\ UNCHANGED <<mu, runtimeRest>>

\* InstantiateModule creates the instance and calls _start
Instantiate(t) ==
    /\ Stmt(t) = "Instantiate"
    /\ live' = live \cup {<<"instance", t>>}
    /\ procs' = Advance(t)
    /\ UNCHANGED <<mu, modules, runtimeRest>>

\* _start ends, leaving what it read from stdin in the memory of the
\* instance, and executeModule returns: the instance is closed, by
\* InstantiateModule itself when _start failed and by the deferred
\* mod.Close otherwise
RunModule(t) ==
    /\ Stmt(t) = "Run"
    /\ Terminates(Program(procs[t].compiled), rconfig.Timeout, FALSE)
    /\ \E r \in {executeModule(rconfig, Program(procs[t].compiled),
                               procs[t].stdin, FALSE)} :
          procs' = [Advance(t) EXCEPT ![t].err = r.err, ![t].ran = TRUE,
                                      ![t].hasResult = r.hasResult,
                                      ![t].Output = r.Output]
    /\ live' = live \ {<<"instance", t>>}
    /\ modules' = IF procs[t].op = "Execute" /\ procs[t].name \in DOMAIN modules
                  THEN [modules EXCEPT ![procs[t].name] =
                                   CompiledAfterRun(@, procs[t].stdin)]
                  ELSE modules
    /\ UNCHANGED <<mu, runtimeRest>>

\* the method returns: its deferred calls run
ReturnStep(t) ==
    /\ Stmt(t) = "Return"
    /\ mu' = IF "Unlock" \in Deferred(procs[t].op) THEN "free" ELSE mu
    /\ live' = IF "compiled.Close" \in Deferred(procs[t].op)
               THEN live \ {<<"compiled", t>>} ELSE live
    /\ procs' = [procs EXCEPT ![t].pc = 0]
    /\ UNCHANGED <<modules, runtimeRest>>

InitRuntime ==
    /\ config = ZeroPolicy
    /\ fs = InitFS
    /\ last = NoLast
    /\ made = {}
    /\ DockerIdle
    /\ SinkIdle
    /\ UnitsIdle
    /\ ConcIdle
    /\ modules = <<>>
    /\ wret = NoWasmReturn
    /\ rconfig = [Timeout |-> 30, MaxOutputBytes |-> 0]

NextRuntime ==
    \/ \E t \in Threads : CallCompile(t)
    \/ \E t \in Threads : CallExecute(t)
    \/ \E t \in Threads : CallExecuteBytes(t)
    \/ \E t \in Threads : Lock(t)
    \/ \E t \in Threads : Unlock(t)
    \/ \E t \in Threads : Lookup(t)
    \/ \E t \in Threads : Check(t)
    \/ \E t \in Threads : CompileModuleStep(t)
    \/ \E t \in Threads : Insert(t)
    \/ \E t \in Threads : Instantiate(t)
    \/ \E t \in Threads : RunModule(t)
    \/ \E t \in Threads : ReturnStep(t)

SpecRuntime == InitRuntime /\ [][NextRuntime]_vars

\* C17: on one Runtime, a goroutine reads or writes the compiled-module
\* cache only while it holds the mutex, no goroutine holds the mutex while
\* it instantiates or runs a module instance, and a goroutine that is in
\* no call does not hold it.
C17_MutexOnlyAroundCache ==
    \A t \in Threads :
       /\ (Stmt(t) \in {"Lookup", "Insert"}) => (mu = t)
       /\ (Stmt(t) \in {"Instantiate", "Run"}) => (mu # t)
       /\ (Stmt(t) = "idle") => (mu # t)

\* two Execute calls run their instances at the same time, the mutex free
C17_Witness ==
    /\ \A t \in Threads : procs[t].op = "Execute" /\ Stmt(t) = "Run"
    /\ procs["t1"].name = procs["t2"].name
    /\ live = {<<"compiled", procs["t1"].name>>, <<"instance", "t1">>,
               <<"instance", "t2">>}
    /\ mu = "free"

\* goroutine t has returned from an execution of a module that ended by itself
Finished(t) ==
    /\ procs[t].pc = 0
    /\ procs[t].op \in {"Execute", "ExecuteBytes"}
    /\ procs[t].ran
    /\ procs[t].wasm.ends # "spin"

C19_InstancesClosedCacheKept ==
    /\ \A t \in Threads :
          (procs[t].pc = 0) =>
             (<<"instance", t>> \notin live /\ <<"compiled", t>> \notin live)
    /\ \A n \in DOMAIN modules : <<"compiled", n>> \in live
    /\ \A t \in Threads :
          (procs[t].pc = 0 /\ procs[t].op = "Compile" /\ ~IsErr(procs[t].err)) =>
             procs[t].name \in DOMAIN modules

C19_Witness ==
    /\ procs["t1"].pc = 0
    /\ procs["t1"].op = "ExecuteBytes"
    /\ procs["t1"].ran
    /\ procs["t1"].err = NewTimeoutError
    /\ procs["t2"].pc = 0
    /\ procs["t2"].op = "Execute"
    /\ procs["t2"].hasResult
    /\ live = {<<"compiled", n>> : n \in DOMAIN modules}

-----------------------------------------------------------------------------
(* Command allow-list: ExecRun and ExecuteCommand under allow-lists that   *)
(* hold a bare name, a full path, or two names.                            *)

cmdLss == <<"l", "s", "s">>
cmdBinRm == <<"/", "b", "/", "r", "m">>
cmdBinLsSlash == <<"/", "b", "/", "l", "s", "/">>

CommandLists == {<<>>, <<cmdLs>>, <<cmdBinLs>>, <<cmdSh, cmdLs>>}

CommandPolicies ==
    { [Capabilities |-> caps, AllowedPaths |-> <<>>, WorkingDir |-> <<>>,
       AllowedHosts |-> <<>>, AllowedCommands |-> cmds, MaxOutputBytes |-> 2] :
         caps \in {{}, {CapExecRun}}, cmds \in CommandLists }

CommandInputs ==
    {cmdLs, cmdBinLs, cmdSh, cmdRm, cmdLss, cmdBinRm, cmdBinLsSlash, <<>>}

\* the behaviours of the subprocess that matter to the gate: it cannot be
\* started, it exits with a status, it is killed at the deadline
GateOutcomes ==
    {o \in ProcOutcomes : o.errOut = <<>> /\ Len(o.out) <= 1 /\ o.code <= 1}

\* HostFunctions.ExecuteCommand: ExecRun under a context that carries the
\* timeout; the Result is built from whatever ExecRun returned
ExecuteCommand(cfg, command, outcome) == ExecRun(cfg, command, outcome)

InitCommands ==
    /\ config \in CommandPolicies
    /\ fs = InitFS
    /\ last = NoLast
    /\ made = {}
    /\ DockerIdle
    /\ WasmIdle
    /\ ConcIdle
    /\ SinkIdle
    /\ UnitsIdle

CommandsExecRun == ExecRunOf(CommandInputs, GateOutcomes)

CommandsExecuteCommand ==
    /\ \E command \in CommandInputs, outcome \in GateOutcomes :
          \E r \in {ExecuteCommand(config, command, outcome)} :
            LET ran == r.spawned \/ r.failedAt = "Run"
            IN  last' = [NoLast EXCEPT !.op = "ExecuteCommand", !.arg = command,
                          !.err = r.err, !.failedAt = r.failedAt,
                          !.spawned = r.spawned, !.code = r.code,
                          !.stdout = r.stdout, !.stderr = r.stderr,
                          !.how = IF ran THEN outcome.how ELSE "none",
                          !.pcode = IF ran THEN outcome.code ELSE 0,
                          !.ctxErr = IF ran THEN outcome.ctxErr ELSE "nil",
                          !.wrote = IF ran THEN Flatten(outcome.out) ELSE <<>>]
    /\ UNCHANGED <<config, fs, made, dockerVars, wasmVars, concVars, sinkVars, unitVars>>

NextCommands ==
    \/ CommandsExecRun
    \/ CommandsExecuteCommand

SpecCommands == InitCommands /\ [][NextCommands]_vars

\* the command, or its base name, is an entry of allowed_commands
Listed(command) ==
    \E i \in DOMAIN config.AllowedCommands :
        config.AllowedCommands[i] \in {command, Base(command)}

\* C21: with exec_run granted and a non-empty allowed_commands, a command
\* passes validation exactly when its full string or its base name equals
\* an entry; every other command fails with kind capability and no
\* subprocess is started.
C21_CommandMatchesEntry ==
    ( /\ last.op \in {"ExecRun", "ExecuteCommand"}
      /\ CapExecRun \in config.Capabilities
      /\ Len(config.AllowedCommands) > 0 ) =>
        /\ Listed(last.arg) <=> (last.failedAt # "validateCommand")
        /\ ~Listed(last.arg) =>
              /\ last.err.typed
              /\ last.err.kind = "capability"
              /\ ~last.spawned

\* /b/ls runs under the entry ls (by base name)
C21_Witness ==
    /\ last.op = "ExecRun"
    /\ last.arg = cmdBinLs
    /\ config.AllowedCommands = <<cmdLs>>
    /\ CapExecRun \in config.Capabilities
    /\ last.spawned
    /\ ~IsErr(last.err)

\* /b/ls runs under the entry /b/ls (by full string), ls does not
C21_WitnessFull ==
    /\ last.op = "ExecRun"
    /\ last.arg = cmdLs
    /\ config.AllowedCommands = <<cmdBinLs>>
    /\ CapExecRun \in config.Capabilities
    /\ last.failedAt = "validateCommand"

-----------------------------------------------------------------------------
(* Path allow-lists: the file operations under allow-lists that hold a     *)
(* directory, two directories, a symbolic link, or the filesystem root.    *)

PathLists == {<<Root>>, <<pA>>, <<pO, pA>>, <<pAL>>}

PathPolicies ==
    { [Capabilities |-> {CapFSRead, CapFSWrite}, AllowedPaths |-> paths,
       WorkingDir |-> wd, AllowedHosts |-> <<>>, AllowedCommands |-> <<>>,
       MaxOutputBytes |-> 0] :
         paths \in PathLists, wd \in {<<>>, pO} }

InitPaths ==
    /\ config \in PathPolicies
    /\ fs = InitFS
    /\ last = NoLast
    /\ made = {}
    /\ DockerIdle
    /\ WasmIdle
    /\ ConcIdle
    /\ SinkIdle
    /\ UnitsIdle

PathsFSRead == FSReadOf(TestPaths \cup {pA, pA2, Root})
PathsFSWrite == FSWriteOf(TestPaths)

NextPaths ==
    \/ PathsFSRead
    \/ PathsFSWrite

SpecPaths == InitPaths /\ [][NextPaths]_vars

\* the path validatePath resolved for the call lies at or below one of the
\* resolved entries of the list, on a path-component boundary
UnderSomeEntry(f, path, list) ==
    \E i \in DOMAIN list : Inside(ResolvedPath(f, path), AllowedAbs(f, list[i]))

\* C22: validatePath accepts a resolved path exactly when, for some
\* resolved allowed entry, the path equals the entry or lies below it on a
\* path-component boundary: /a2 is rejected against /a, and every path
\* under an allowed entry is accepted, also when the entry is the
\* filesystem root.
C22_AcceptsExactlyDescendants ==
    [][ (last'.op \in {"FSRead", "FSWrite"} /\ last'.failedAt # "capability") =>
           ( (last'.failedAt # "validatePath")
             <=> UnderSomeEntry(fs, last'.arg, config.AllowedPaths) ) ]_vars

-----------------------------------------------------------------------------
(* The effective allow-list of validatePath.                               *)

\* allowed_paths when it is non-empty, else working_dir alone when it is
\* set, else nothing
StatedList(cfg) ==
    IF cfg.AllowedPaths # <<>> THEN cfg.AllowedPaths
    ELSE IF cfg.WorkingDir # <<>> THEN <<cfg.WorkingDir>>
    ELSE <<>>

C23_WitnessOpen ==
    /\ last.op = "FSRead"
    /\ last.arg = pOS
    /\ config.AllowedPaths = <<>>
    /\ config.WorkingDir = <<>>
    /\ last.read # {}

-----------------------------------------------------------------------------
(* The exec_run capability on every path that executes a command.          *)

\* a call of the container backend under an attached Policy without
\* exec_run is refused with kind capability before any daemon request
ContainerCallsGated ==
    (hostSet /\ call.op # "none" /\ CapExecRun \notin config.Capabilities) =>
        /\ call.pc = "idle"
        /\ dret.err.kind = "capability"
        /\ ~dret.hasResult
        /\ api = <<>>
        /\ ~call.created
        /\ box.state = "none"

\* ExecuteCommand / ExecRun without exec_run spawn nothing
HostCallsGated ==
    (last.op \in {"ExecRun", "ExecuteCommand"}
       /\ CapExecRun \notin config.Capabilities) =>
        /\ last.err.kind = "capability"
        /\ ~last.spawned

\* C24: when the Policy attached to the container backend does not contain
\* exec_run, Run, RunShell and RunWithStdin execute no command (they fail
\* with kind capability before a container is created), and ExecuteCommand
\* never spawns a subprocess without exec_run.
C24_NoBypassOfExecRun ==
    /\ ContainerCallsGated
    /\ HostCallsGated

-----------------------------------------------------------------------------
(* NewRuntime: the page ceiling of the bytecode runtime.                   *)

\* largest memory_limit_mb NewRuntime turns into a page limit
MaxMemoryLimitMB == 4096
\* 64 KiB pages per megabyte
PagesPerMB == 16
\* the page limit of a wazero RuntimeConfig nobody set a limit on
EngineDefaultPages == 65536
\* largest of the consecutive memory_limit_mb values explored
MaxMemoryMB == 100

MemoryLimits == 0..MaxMemoryMB \cup {4095, 4096, 4097, 8192}

\* wasi_snapshot_preview1.Instantiate: the module name it registers and
\* some of the functions it exports to every guest of the runtime
WasiModule == "wasi_snapshot_preview1"
WasiFunctions ==
    {"fd_read", "fd_write", "proc_exit", "clock_time_get", "random_get",
     "args_get", "environ_get"}

\* NewRuntime: the page limit is set only for 0 < MemoryLimitMB <= 4096
\* (the uint32 product is then at most 65536 and cannot wrap); the only
\* error is a failed WASI instantiation
NewRuntime(cfg, wasiOk) ==
    LET pages == IF cfg.MemoryLimitMB > 0 /\ cfg.MemoryLimitMB <= MaxMemoryLimitMB
                 THEN cfg.MemoryLimitMB * PagesPerMB
                 ELSE EngineDefaultPages
    IN  IF ~wasiOk
        THEN [NoEngine EXCEPT !.MemoryLimitMB = cfg.MemoryLimitMB,
                              !.err = Wrap(PlainErr("instantiate WASI"))]
        ELSE [built |-> TRUE, MemoryLimitMB |-> cfg.MemoryLimitMB, err |-> NilErr,
              pages |-> pages, regErr |-> NilErr,
              hostModules |-> {<<WasiModule, f>> : f \in WasiFunctions}]

InitNewRuntime ==
    /\ config = ZeroPolicy
    /\ fs = InitFS
    /\ last = NoLast
    /\ made = {}
    /\ DockerIdle
    /\ WasmIdle
    /\ ConcIdle
    /\ SinkIdle
    /\ UnitsIdle

NewRuntimeCall ==
    /\ \E mb \in MemoryLimits, wasiOk \in BOOLEAN :
          engine' = NewRuntime([MemoryLimitMB |-> mb], wasiOk)
    /\ UNCHANGED <<bridgeVars, dockerVars, wasmVars, concVars, sinkVars, netmode>>

\* the four bridge operations
BridgeOperations == {"fs_read", "fs_write", "http_fetch", "exec_run"}

\* arguments of RegisterHostModule: any module name, any functions
HostModuleNames == {"env", "omni"}
HostBuilders == {BridgeOperations, {"fs_read"}, {"getenv", "exec_run"}}

\* the module names instantiated in the runtime
Instantiated(e) == {pair[1] : pair \in e.hostModules}

\* Runtime.RegisterHostModule: instantiates a host module of the given name
\* exporting whatever the builder added; the engine refuses a name that is
\* already instantiated
RegisterHostModule ==
    /\ engine.built
    /\ \E moduleName \in HostModuleNames \cup {WasiModule}, funcs \in HostBuilders :
          IF moduleName \in Instantiated(engine)
          THEN engine' = [engine EXCEPT !.regErr = PlainErr("already instantiated")]
          ELSE engine' = [engine EXCEPT
                             !.regErr = NilErr,
                             !.hostModules = @ \cup {<<moduleName, f>> : f \in funcs}]
    /\ UNCHANGED <<bridgeVars, dockerVars, wasmVars, concVars, sinkVars, netmode>>

NextNewRuntime ==
    \/ NewRuntimeCall
    \/ RegisterHostModule

SpecNewRuntime == InitNewRuntime /\ [][NextNewRuntime]_vars

\* C25: NewRuntime derives the page ceiling as memory_limit_mb x 16 pages
\* for 1 <= memory_limit_mb <= 4096, never above 65536 pages; a
\* memory_limit_mb above 4096 is rejected with an error; a memory_limit_mb
\* of 0 yields the 16 MB default, 256 pages.
C25_PageCeiling ==
    /\ (engine.built /\ engine.MemoryLimitMB \in 1..4096) =>
          /\ engine.pages = engine.MemoryLimitMB * 16
          /\ engine.pages <= 65536
    /\ (engine.MemoryLimitMB > 4096) => (IsErr(engine.err) /\ ~engine.built)
    /\ (engine.built /\ engine.MemoryLimitMB = 0) => engine.pages = 256

-----------------------------------------------------------------------------
(* Host modules of the bytecode runtime.  engine.hostModules holds the     *)
(* pairs <<module, function>> a guest module can import when Execute /     *)
(* ExecuteBytes instantiates it.                                           *)

\* C26: the host functions a module can import are exactly the four bridge
\* operations (fs_read, fs_write, http_fetch, exec_run) under one fixed
\* module namespace; no other host-provided function is reachable from a
\* module run by Execute / ExecuteBytes.
C26_OnlyBridgeImports ==
    engine.built =>
        \E ns \in HostModuleNames \cup {WasiModule} :
            engine.hostModules = {<<ns, f>> : f \in BridgeOperations}

-----------------------------------------------------------------------------
(* ParseNetworkMode.                                                       *)

LowerCase ==
    <<"a", "b", "c", "d", "e", "f", "g", "h", "i", "j", "k", "l", "m",
      "n", "o", "p", "q", "r", "s", "t", "u", "v", "w", "x", "y", "z">>
UpperCase ==
    <<"A", "B", "C", "D", "E", "F", "G", "H", "I", "J", "K", "L", "M",
      "N", "O", "P", "Q", "R", "S", "T", "U", "V", "W", "X", "Y", "Z">>

\* strings.ToLower on the characters of the model
ToLower(s) ==
    [i \in DOMAIN s |->
        IF \E k \in DOMAIN UpperCase : UpperCase[k] = s[i]
        THEN LowerCase[CHOOSE k \in DOMAIN UpperCase : UpperCase[k] = s[i]]
        ELSE s[i]]

modeNone == <<"n", "o", "n", "e">>
modeBridge == <<"b", "r", "i", "d", "g", "e">>
modeHost == <<"h", "o", "s", "t">>
NetworkModes == {modeNone, modeBridge, modeHost}

\* ParseNetworkMode without the case normalisation
ParseNetworkModeExact(mode) ==
    IF mode \in NetworkModes
    THEN [mode |-> mode, err |-> NilErr]
    ELSE [mode |-> <<>>, err |-> PlainErr("invalid network mode")]

\* ParseNetworkMode
ParseNetworkMode(mode) ==
    IF ToLower(mode) \in NetworkModes
    THEN [mode |-> ToLower(mode), err |-> NilErr]
    ELSE [mode |-> <<>>, err |-> PlainErr("invalid network mode")]

\* the spellings of a word in upper and lower case
CaseVariants(word) ==
    { [i \in DOMAIN word |->
          IF i \in up
          THEN UpperCase[CHOOSE k \in DOMAIN LowerCase : LowerCase[k] = word[i]]
          ELSE word[i]] : up \in SUBSET DOMAIN word }

\* every spelling of the three modes, and strings that are none of them
ModeInputs ==
    UNION {CaseVariants(w) : w \in NetworkModes}
    \cup { <<>>, <<"n", "o", "n">>, <<"n", "o", "n", "e", "e">>,
           <<" ", "n", "o", "n", "e">>, <<"h", "o", "s", "t", " ">>,
           <<"H", "0", "S", "T">>, <<"b", "r", "i", "d", "g", "e", "d">>,
           <<"i", "n", "v", "a", "l", "i", "d">>,
           <<"c", "o", "n", "t", "a", "i", "n", "e", "r", ":", "x">> }

InitNetworkMode ==
    /\ config = ZeroPolicy
    /\ fs = InitFS
    /\ last = NoLast
    /\ made = {}
    /\ DockerIdle
    /\ WasmIdle
    /\ ConcIdle
    /\ SinkIdle
    /\ UnitsIdle

\* ParseNetworkMode(input), and ParseNetworkMode of what it returned
ParseCall ==
    /\ \E input \in ModeInputs :
          \E r \in {ParseNetworkMode(input)} :
             \E r2 \in {ParseNetworkMode(r.mode)} :
                netmode' = [called |-> TRUE, input |-> input, mode |-> r.mode,
                            err |-> r.err, again |-> r2.mode, againErr |-> r2.err]
    /\ UNCHANGED <<bridgeVars, dockerVars, wasmVars, concVars, sinkVars, engine>>

NextNetworkMode == ParseCall

SpecNetworkMode == InitNetworkMode /\ [][NextNetworkMode]_vars

\* C27: ParseNetworkMode returns the lower-cased mode and no error exactly
\* when the input is a spelling, in any mix of cases, of none, bridge or
\* host; for every other input it returns the empty string and an error;
\* applied to its own successful output it returns the same value.
C27_ParseNetworkMode ==
    netmode.called =>
        /\ (\E w \in NetworkModes : netmode.input \in CaseVariants(w)) =>
              /\ ~IsErr(netmode.err)
              /\ netmode.mode \in NetworkModes
              /\ netmode.input \in CaseVariants(netmode.mode)
        /\ ~(\E w \in NetworkModes : netmode.input \in CaseVariants(w)) =>
              /\ IsErr(netmode.err)
              /\ netmode.mode = <<>>
        /\ ~IsErr(netmode.err) =>
              /\ netmode.again = netmode.mode
              /\ ~IsErr(netmode.againErr)

C27_Witness ==
    /\ netmode.called
    /\ netmode.input = <<"B", "r", "I", "d", "G", "e">>
    /\ netmode.mode = modeBridge
    /\ ~IsErr(netmode.err)
    /\ netmode.again = modeBridge

-----------------------------------------------------------------------------
(* The network mode of the containers.                                     *)

\* C28: the network mode that Run / RunWithStdin hand to the container
\* daemon is always one of the validated, lower-case values none, bridge,
\* host: a DockerConfig carrying any other NetworkMode string is rejected
\* before a container is created.
C28_NetworkModeValidated ==
    /\ (box.state # "none") => box.network \in NetworkModes
    /\ (dconfig.NetworkMode \notin NetworkModes) =>
          (~call.created /\ \A i \in DOMAIN api : ~api[i].ok)

-----------------------------------------------------------------------------
(* Error mapping of the bytecode backend.                                  *)

\* C29: when instantiation or execution of a module fails, Execute /
\* ExecuteBytes return an ExecutionError of kind timeout exactly when the
\* deadline of the execution was exceeded, and in every other case an
\* ExecutionError of kind runtime whose Cause is the underlying error; no
\* Result is returned in either case.
C29_FailureIsTimeoutOrRuntime ==
    (wret.ran /\ wret.instErr # "nil") =>
        /\ ~wret.hasResult
        /\ wret.err.typed
        /\ (wret.err.kind = "timeout") <=> (wret.ctxErr = "DeadlineExceeded")
        /\ (wret.ctxErr = "DeadlineExceeded") => wret.err = NewTimeoutError
        /\ (wret.ctxErr # "DeadlineExceeded") =>
              wret.err = ExecutionError("runtime", wret.instErr)

\* a spinning module stopped by the caller's cancel: kind runtime
C29_Witness ==
    /\ wret.ran
    /\ wret.op = "Execute"
    /\ wret.ends = "spin"
    /\ wret.ctxErr = "Canceled"
    /\ wret.err.kind = "runtime"
    /\ ~wret.hasResult

\* a module that overruns its deadline: kind timeout
C29_WitnessDeadline ==
    /\ wret.ran
    /\ wret.ends \in {"spin", "trapLate"}
    /\ wret.ctxErr = "DeadlineExceeded"
    /\ wret.err = NewTimeoutError

-----------------------------------------------------------------------------
(* Order of the steps of RunWithStdin.                                     *)

\* the requests of the call in progress that set up the container and
\* feed its stdin, in the order they were issued
StdinSteps ==
    SelectSeq(api, LAMBDA r : r.name \in {"ContainerCreate", "ContainerAttach",
                                          "ContainerStart", "Write", "CloseWrite"})

\* the order stated for a call with the given stdin
StatedOrder(stdin) ==
    <<"ContainerCreate", "ContainerAttach", "ContainerStart">>
    \o (IF Len(stdin) > 0 THEN <<"Write">> ELSE <<>>)
    \o <<"CloseWrite">>

Issued(name) == \E i \in DOMAIN api : api[i].name = name /\ api[i].ok

\* C30: in RunWithStdin the steps occur in the order create container,
\* attach, start, write the stdin bytes, close the write side, each only
\* after the one before it succeeded; the write side is closed on every
\* path that reaches a successful start with a successful stdin write, also
\* when stdin is empty; output is read only after the close.
C30_StdinOrder ==
    (call.op = "RunWithStdin") =>
        /\ Len(StdinSteps) <= Len(StatedOrder(call.stdin))
        /\ \A i \in DOMAIN StdinSteps :
              /\ StdinSteps[i].name = StatedOrder(call.stdin)[i]
              /\ (i < Len(StdinSteps)) => StdinSteps[i].ok
        /\ ( /\ Issued("ContainerStart")
             /\ call.pc # "stdin"
             /\ (Len(call.stdin) > 0) => Issued("Write") ) => Issued("CloseWrite")
        /\ (call.pc \in {"wait", "select"} \/ dret.hasResult \/ call.out # <<>>) =>
              Issued("CloseWrite")

\* a call with empty stdin that returned a Result: nothing was written and
\* the write side was closed
C30_Witness ==
    /\ call.op = "RunWithStdin"
    /\ call.stdin = <<>>
    /\ call.pc = "idle"
    /\ dret.hasResult
    /\ Issued("CloseWrite")
    /\ ~\E i \in DOMAIN api : api[i].name = "Write"

-----------------------------------------------------------------------------
(* What FSRead returns.                                                    *)

\* C31: FSRead with the capability granted and a valid path to a file
\* returns, when max_output_bytes > 0, exactly the first
\* min(file size, max_output_bytes) bytes of the file, with a nil error
\* also when the file was truncated.
C31_ReadReturnsCappedPrefix ==
    ( /\ last.op = "FSRead"
      /\ last.failedAt \notin {"capability", "validatePath"}
      /\ Resolve(fs, ResolvedPath(fs, last.arg)).err = "nil"
      /\ Node(fs, Resolve(fs, ResolvedPath(fs, last.arg)).path).kind = "file"
      /\ config.MaxOutputBytes > 0 ) =>
        /\ last.err = NilErr
        /\ last.data =
              Prefix(Node(fs, Resolve(fs, ResolvedPath(fs, last.arg)).path).data,
                     config.MaxOutputBytes)

\* a file of three bytes read under a cap of two
C31_Witness ==
    /\ last.op = "FSRead"
    /\ last.arg = pAF
    /\ config.MaxOutputBytes = 2
    /\ Node(fs, pAF).data = <<1, 2, 3>>
    /\ last.data = <<1, 2>>
    /\ last.err = NilErr

\* a file shorter than the cap is returned whole
C31_WitnessShort ==
    /\ last.op = "FSRead"
    /\ config.MaxOutputBytes = 2
    /\ last.data = <<7>>
    /\ last.err = NilErr

-----------------------------------------------------------------------------
(* What a container call returns, against the outcome of its cleanup.      *)

\* the requests of the call other than its cleanup (stop, forced removal)
PrimaryRequests ==
    SelectSeq(api, LAMBDA r : r.name \notin {"ContainerStop", "ContainerRemove"})

\* the error the steps of the call produced, read off the requests other
\* than cleanup, the answer of the wait and the context
PrimaryError ==
    LET l == PrimaryRequests[Len(PrimaryRequests)]
        step == CASE l.name = "ContainerCreate" -> "create"
                  [] l.name = "ContainerAttach" -> "attach"
                  [] l.name = "ContainerStart" -> "start"
                  [] l.name = "ContainerLogs" -> "no such container"
                  [] OTHER -> "write stdin"
    IN  IF ~l.ok /\ l.name = "Write" THEN Wrap(PlainErr("write stdin"))
        ELSE IF ~l.ok /\ l.name # "ContainerWait"
        THEN IF ctx # "live" THEN CtxErr ELSE Wrap(PlainErr(step))
        ELSE IF call.wait = "result" THEN NilErr
        ELSE IF ctx = "deadline" THEN NewTimeoutError
        ELSE Wrap(PlainErr("wait"))

CleanupFailed ==
    \E i \in DOMAIN api :
        api[i].name \in {"ContainerStop", "ContainerRemove"} /\ ~api[i].ok

\* C32: the value Run / RunShell / RunWithStdin returns is fixed by the
\* steps of the call alone: a failing ContainerRemove or ContainerStop
\* never turns a Result into an error and never replaces the error of the
\* step that failed.
C32_CleanupNeverMasks ==
    (call.pc = "idle" /\ call.op # "none" /\ ~dret.rejected) =>
        /\ dret.err = PrimaryError
        /\ dret.hasResult <=> (PrimaryError = NilErr)
        /\ dret.hasResult =>
              /\ dret.ExitCode = IF call.op = "RunWithStdin"
                                 THEN box.code ELSE call.exitCode
              /\ dret.Output = StdCopy(NewLimitedWriter(MaxBytes(dconfig)),
                                       NewLimitedWriter(MaxBytes(dconfig)),
                                       box.frames).out

\* a Result returned although the daemon refused the forced removal
C32_Witness ==
    /\ call.pc = "idle"
    /\ dret.hasResult
    /\ box.state = "exited"
    /\ CleanupFailed

\* a timeout returned although both the stop and the removal failed
C32_WitnessTimeout ==
    /\ call.pc = "idle"
    /\ dret.err = NewTimeoutError
    /\ box.state = "running"
    /\ \E i \in DOMAIN api : api[i].name = "ContainerStop" /\ ~api[i].ok
    /\ \E i \in DOMAIN api : api[i].name = "ContainerRemove" /\ ~api[i].ok

-----------------------------------------------------------------------------
(* The two output sinks side by side.                                      *)

\* the chunk a step of the sink specification wrote
Written == SubSeq(sink'.stream, Len(sink.stream) + 1, Len(sink'.stream))

\* both sinks retain the same bytes
SinksRetainSame == (sink.max > 0) => (sink.w.buf = sink.b.buf)

\* C33: for every cap M > 0 and every sequence of Write calls,
\* limitedWriter and limitedBuffer retain the same bytes and return the
\* same n for each call: before the cap is reached, on the write that
\* crosses it, and after it is full.
C33_SinksIdentical ==
    [][ (sink.max > 0 /\ sink'.stream # sink.stream) =>
           /\ sink'.w.buf = sink'.b.buf
           /\ limitedWriterWrite(sink.w, Written).n
                 = limitedBufferWrite(sink.b, Written).n ]_vars


\* ---------------------------------------------------------------------
\* Auto-removal of the exited container against Run's log retrieval
\* (Run, HostConfig.AutoRemove and the wait followed by ContainerLogs)

\* the call returned, its context never ended, the command in the
\* container ended by itself and the wait was answered with its status
SelfExitReturned ==
    /\ call.pc = "idle"
    /\ call.op \in {"Run", "RunShell"}
    /\ ~dret.rejected
    /\ ctx = "live"
    /\ box.how = "self"
    /\ call.wait = "result"

\* a ContainerLogs request the daemon refused
LogsRefused ==
    \E i \in DOMAIN api : api[i].name = "ContainerLogs" /\ ~api[i].ok

\* C34: a Run whose command exits by itself before the deadline returns a
\* Result with the exit code and the output of the command, whenever the
\* daemon auto-removes the exited container: the log retrieval after the
\* wait is never refused because the container is already gone.
C34_LogsSurviveAutoRemove ==
    SelfExitReturned =>
        /\ ~LogsRefused
        /\ dret.err = NilErr
        /\ dret.hasResult
        /\ dret.ExitCode = box.code
        /\ dret.Output = StdCopy(NewLimitedWriter(MaxBytes(dconfig)),
                                 NewLimitedWriter(MaxBytes(dconfig)),
                                 box.frames).out


\* ---------------------------------------------------------------------
\* The two output streams of a container Run (StdCopy into limitedWriters)

\* all the bytes the frames of one stream carry, in order
RECURSIVE StreamBytes(_, _)
StreamBytes(frames, stream) ==
    IF frames = <<>> THEN <<>>
    ELSE (IF Head(frames).stream = stream THEN Head(frames).data ELSE <<>>)
         \o StreamBytes(Tail(frames), stream)

\* C35: the streams are capped independently: whatever the order of the
\* stdout and stderr frames of the log stream, the Result of Run carries
\* the first min(len, M) bytes of all stdout frames as Output and the first
\* min(len, M) bytes of all stderr frames as Error; one stream reaching
\* its cap drops no later frame of the other.
C35_StreamsCappedIndependently ==
    (call.pc = "idle" /\ call.op \in {"Run", "RunShell"} /\ dret.hasResult) =>
        /\ dret.Output = Prefix(StreamBytes(box.frames, "stdout"), MaxBytes(dconfig))
        /\ dret.Error = Prefix(StreamBytes(box.frames, "stderr"), MaxBytes(dconfig))


\* ---------------------------------------------------------------------
\* Where FSWrite creates files and directories (FSWrite, validatePath)

\* C36: under a Policy with fs_write and a non-empty allowed_paths, after
\* any sequence of FSWrite calls every file and directory FSWrite created
\* lies, symbolic links resolved, inside one of the allowed directories:
\* what is written is the real location validatePath approved.
C36_CreatedInsideAllowed ==
    (CapFSWrite \in config.Capabilities /\ Len(config.AllowedPaths) > 0) =>
        \A p \in made : ~OutsideAllowed(p)


\* ---------------------------------------------------------------------
\* The module cache across a failed Compile (Runtime.Compile, Execute)

\* C37: a Compile that fails leaves the module cache as it was, so a
\* module cached earlier under that name is still the one Execute runs and
\* the other names are untouched; Execute of a name that is not cached
\* returns a module-not-found error and instantiates nothing, and Execute
\* of a cached name runs the module the cache holds.
C37_FailedCompileKeepsCache ==
    [][ /\ (wret'.op = "Compile" /\ IsErr(wret'.err)) =>
              /\ modules' = modules
              /\ wret'.err = Wrap(PlainErr("compile module"))
        /\ (wret'.op = "Execute" /\ wret'.name \notin DOMAIN modules) =>
              /\ wret'.err = PlainErr("module not found")
              /\ ~wret'.ran
              /\ ~wret'.hasResult
        /\ (wret'.op = "Execute" /\ wret'.name \in DOMAIN modules) =>
              /\ wret'.ran
              /\ wret'.ends = modules[wret'.name].wasm.ends
              /\ modules' = modules ]_vars

\* a failed Compile under a name that is cached, the entry still there
C37_Witness ==
    /\ wret.op = "Compile"
    /\ IsErr(wret.err)
    /\ wret.name = "m1"
    /\ DOMAIN modules = {"m1", "m2"}
    /\ modules["m1"].wasm.ends = "exit"

\* a failed Compile under a name that was never compiled
C37_WitnessNeverCompiled ==
    /\ wret.op = "Compile"
    /\ IsErr(wret.err)
    /\ wret.name = "m2"
    /\ DOMAIN modules = {"m1"}


\* ---------------------------------------------------------------------
\* The command gate of RunShell (RunShell, Run's validateCommand)

\* "sh" is an entry of allowed_commands
ShAllowed ==
    \E i \in DOMAIN config.AllowedCommands : config.AllowedCommands[i] = cmdSh

\* the command the shell text of the call invokes is an entry
TextAllowed ==
    \E i \in DOMAIN config.AllowedCommands : config.AllowedCommands[i] = call.args[2]

\* every mount of the DockerConfig passes the Path Validator
MountsPass == FirstBadMount(config, fs, dconfig.Mounts) = 0

\* C38: with an app-level Policy attached, RunShell(s) is gated on "sh"
\* alone, whatever the shell text s: when allowed_commands does not contain
\* "sh" the call fails with kind capability before any daemon request, and
\* when it does the text is handed to sh -c in the container unchanged,
\* also when it invokes a command that is not in allowed_commands.
C38_ShellGateIsSh ==
    (hostSet /\ call.op = "RunShell") =>
        /\ call.command = cmdSh
        /\ call.args \in {<<dashC, s>> : s \in ShellTexts}
        /\ (~ShAllowed) =>
              /\ dret.rejected
              /\ dret.err = validateCommand(config, cmdSh)
              /\ dret.err.kind = "capability"
              /\ api = <<>>
              /\ box = NoBox
        /\ (ShAllowed /\ MountsPass) => ~dret.rejected
        /\ (box.state # "none") => (box.cmd = <<cmdSh>> \o call.args)

\* sh is allowed, rm is not: the text invoking rm ran in the container and
\* the call returned its Result
C38_Witness ==
    /\ hostSet
    /\ call.op = "RunShell"
    /\ call.pc = "idle"
    /\ ShAllowed
    /\ call.args = <<dashC, cmdRm>>
    /\ ~TextAllowed
    /\ box.cmd = <<cmdSh, dashC, cmdRm>>
    /\ box.how = "self"
    /\ dret.hasResult

\* ls is allowed, sh is not: the text invoking ls is rejected
C38_WitnessNoSh ==
    /\ hostSet
    /\ call.op = "RunShell"
    /\ ~ShAllowed
    /\ config.AllowedCommands = <<cmdLs>>
    /\ call.args = <<dashC, cmdLs>>
    /\ TextAllowed
    /\ dret.rejected
    /\ dret.err.kind = "capability"
=============================================================================
